---- MODULE Spec2Model ----
(***************************************************************************)
(* PricePulse: the price/comparison reconcilers (backend/app/scraper.py),  *)
(* the job scheduler (backend/app/scheduler.py) and the request handlers   *)
(* that drive them (backend/app/main.py), as one state machine.            *)
(*                                                                         *)
(* Persistence is one SQLite database. Every reconciler run and every      *)
(* request has a session of its own (autocommit=False, autoflush=False):   *)
(* what a run assigns stays in its session until db.commit(), and          *)
(* db.rollback() discards it. A coroutine runs without interruption        *)
(* between two awaits, so one action is the code from one suspension point *)
(* to the next.                                                            *)
(***************************************************************************)
EXTENDS Integers, Sequences, FiniteSets, TLC

VARIABLES
    phase,       \* the service process: "serving", "stopping", "stopped", "starting"
    now,         \* datetime.utcnow(), in days
    ticks,       \* how often the clock has advanced
    users,       \* table users: email -> user_id
    products,    \* table products: product_id -> [url, price, upd]
    points,      \* table price_records, per product_id, in insertion order
    alerts,      \* table alerts: alert_id -> row
    comparisons, \* table platform_comparisons, per product_id
    nextUser,    \* next fresh user_id (uuid4 in the code)
    nextPid,     \* next fresh product_id
    nextAlert,   \* next fresh alert_id
    jobs,        \* the scheduler's job store, in insertion order
    runs,        \* the reconciler runs, track requests and tasks in flight, by id
    nRuns,       \* runs, track requests and tasks started so far
    last,        \* the run or request that ended most recently, as it ended
    attempts,    \* per alert_id, the calls of send_price_drop_alert made for it
    nSched,      \* direct calls of schedule_product_scraping, per product id
    nRemoved,    \* direct calls of remove_product_jobs, per product id
    schedError,  \* a scheduler call raised (JobLookupError, ConflictingIdError)
    call         \* the helper function called most recently: [fn, args, ret]

vars == <<phase, now, ticks, users, products, points, alerts, comparisons,
          nextUser, nextPid, nextAlert, jobs, runs, nRuns, last, attempts,
          nSched, nRemoved, schedError, call>>

taskVars == <<runs, nRuns, last>>
dbVars == <<users, products, points, alerts, comparisons, nextUser, nextPid,
            nextAlert>>
schedCallVars == <<nSched, nRemoved, schedError>>

----------------------------------------------------------------------------
(* Bounds of the model *)

MaxUsers == 2       \* user ids ever allocated
MaxProducts == 2    \* product ids ever allocated
MaxAlerts == 2      \* alert ids ever allocated
MaxRuns == 3        \* runs, track requests and tasks ever started
MaxCmpRuns == 5     \* the same, under ReplaceSpec
MaxTicks == 2       \* clock advances
MaxCalls == 2       \* direct scheduler calls per product id
MaxCands == 2       \* search results read per platform in one search
MaxList == 3        \* candidates handed to one fuzzy_best_match call

(* Program constants *)

MatchThreshold == 80        \* fuzzy_best_match(..., threshold=80)
RetentionDays == 30         \* timedelta(days=30)
PriceIntervalHours == 1     \* IntervalTrigger(hours=1)
CompareIntervalHours == 6   \* IntervalTrigger(hours=6)

(* Input domains *)

ProductIds == 1..MaxProducts
AlertIds == 1..MaxAlerts
RunIds == 1..MaxRuns
CmpRunIds == 1..MaxCmpRuns
Urls == {"amazon.in/dp/A", "amazon.in/dp/B"}
Users == {"u1", "u2"}       \* the emails that bearer tokens carry
Prices == {8500, 10000}     \* scraped prices, in paise
Targets == {9000}           \* alert target prices, in paise
AlertTargets == {9000, 9500}
Titles == {"same", "edge", "far"}
CandPrices == {7000}
ClockSteps == {RetentionDays}

Range(s) == {s[i] : i \in DOMAIN s}

Drop(f, S) == [x \in (DOMAIN f) \ S |-> f[x]]

----------------------------------------------------------------------------
(* The job store (APScheduler, default MemoryJobStore) *)

\* f"scrape_price_{product_id}" / f"compare_price_{product_id}": the two
\* prefixes differ in their first character, so the key determines the pair.
JobId(kind, p) == <<kind, p>>

\* The two jobs the module registers with @scheduler.scheduled_job.
GlobalJobs ==
    << [id |-> JobId("cleanup_old_records", 0), trigger |-> <<"cron", 0>>],
       [id |-> JobId("scheduler_health_check", 0), trigger |-> <<"minutes", 30>>] >>

GetJob(js, id) == \E i \in DOMAIN js : js[i].id = id

JobCount(js, id) == Cardinality({i \in DOMAIN js : js[i].id = id})

RemoveJob(js, id) == SelectSeq(js, LAMBDA j : j.id # id)

\* scheduler.add_job(..., id=..., replace_existing=True)
AddJob(js, job, replace) ==
    IF GetJob(js, job.id)
    THEN IF replace
         THEN [i \in DOMAIN js |-> IF js[i].id = job.id THEN job ELSE js[i]]
         ELSE js
    ELSE Append(js, job)

\* Variant: add_job without the key lookup and without replace_existing.
SchedulePriceJobAppend(js, p) ==
    Append(js, [id |-> JobId("scrape_price", p),
                trigger |-> <<"hours", PriceIntervalHours>>])

SchedulePriceJob(js, p) ==
    LET id == JobId("scrape_price", p)
        js1 == IF GetJob(js, id) THEN RemoveJob(js, id) ELSE js
    IN  AddJob(js1, [id |-> id, trigger |-> <<"hours", PriceIntervalHours>>], TRUE)

ScheduleCompareJob(js, p) ==
    LET id == JobId("compare_price", p)
        js1 == IF GetJob(js, id) THEN RemoveJob(js, id) ELSE js
    IN  AddJob(js1, [id |-> id, trigger |-> <<"hours", CompareIntervalHours>>], TRUE)

ScheduleProductScraping(js, p) == ScheduleCompareJob(SchedulePriceJob(js, p), p)

\* scheduler.remove_job: JobLookupError for an id that is not in the store.
RemoveJobStrict(st, id) ==
    IF GetJob(st.jobs, id)
    THEN [jobs |-> RemoveJob(st.jobs, id), raised |-> st.raised]
    ELSE [jobs |-> st.jobs, raised |-> TRUE]

\* Variant: removal by job kind, whatever the product.
RemoveProductJobsByKind(js, p) ==
    [jobs |-> SelectSeq(js, LAMBDA j :
                  j.id[1] \notin {"scrape_price", "compare_price"}),
     raised |-> FALSE]

\* remove_product_jobs: both keys of the product, each removed only if
\* get_job finds it. The result is the store and whether a call raised.
RemoveProductJobs(js, p) ==
    LET st0 == [jobs |-> js, raised |-> FALSE]
        id1 == JobId("scrape_price", p)
        id2 == JobId("compare_price", p)
        st1 == IF GetJob(st0.jobs, id1) THEN RemoveJobStrict(st0, id1) ELSE st0
    IN  IF GetJob(st1.jobs, id2) THEN RemoveJobStrict(st1, id2) ELSE st1

----------------------------------------------------------------------------
(* Runs, requests and tasks *)

\* upd: when the run was called, then the updated_at it assigns (for a
\* firing, when it fired); loaded: the current_price of the product row as
\* the run's session loaded it; selUser: the user_id of each selected alert; known: the users the
\* run's session has loaded.
NoRun ==
    [rid |-> 0, kind |-> "none", pid |-> 0, url |-> "", pc |-> "done",
     out |-> "", loaded |-> 0, price |-> 0, upd |-> 0, sel |-> <<>>,
     selUser |-> <<>>, known |-> {}, sent |-> <<>>, dates |-> <<>>,
     failed |-> {}, found |-> <<>>, before |-> <<>>, user |-> 0,
     target |-> 0, deleted |-> 0]

NextRun == nRuns + 1

InFlight(r) == r \in DOMAIN runs

\* A run starts: it takes the next id, of the ids up to `bound`.
SpawnWithin(bound, run) ==
    /\ nRuns < bound
    /\ nRuns' = nRuns + 1
    /\ runs' = runs @@ (NextRun :> [run EXCEPT !.rid = NextRun])
    /\ last' = last

Spawn(run) == SpawnWithin(MaxRuns, run)

\* A run ends: `run` is its record at that point.
Finish(r, run, outcome) ==
    /\ runs' = Drop(runs, {r})
    /\ last' = [run EXCEPT !.pc = "done", !.out = outcome]
    /\ nRuns' = nRuns

NoCall == [fn |-> "none", args |-> <<>>, ret |-> <<>>]

----------------------------------------------------------------------------
\* The service has started on an empty database.
Init ==
    /\ phase = "serving"
    /\ now = 0
    /\ ticks = 0
    /\ users = <<>>
    /\ products = <<>>
    /\ points = [p \in ProductIds |-> <<>>]
    /\ alerts = <<>>
    /\ comparisons = [p \in ProductIds |-> <<>>]
    /\ nextUser = 1
    /\ nextPid = 1
    /\ nextAlert = 1
    /\ jobs = GlobalJobs
    /\ runs = <<>>
    /\ nRuns = 0
    /\ last = NoRun
    /\ attempts = [a \in AlertIds |-> 0]
    /\ nSched = [p \in ProductIds |-> 0]
    /\ nRemoved = [p \in ProductIds |-> 0]
    /\ schedError = FALSE
    /\ call = NoCall

\* The clock moves on by one of ClockSteps.
Tick(d) ==
    /\ ticks < MaxTicks
    /\ now' = now + d
    /\ ticks' = ticks + 1
    /\ UNCHANGED <<phase, jobs, attempts>>
    /\ UNCHANGED taskVars
    /\ UNCHANGED dbVars
    /\ UNCHANGED schedCallVars
    /\ UNCHANGED call

----------------------------------------------------------------------------
(* Service lifecycle (main.py startup_event / shutdown_event) *)

\* The server accepts requests.
Serving == phase = "serving"

\* The scheduler has been started and not shut down: its jobs fire.
SchedulerRunning == phase \in {"starting", "serving"}

\* The process and its event loop exist.
Alive == phase # "stopped"

\* shutdown_event up to its await: scheduler.shutdown() stops the scheduler
\* and its MemoryJobStore drops every job. What is in flight on the event
\* loop stays in flight while playwright.stop() is awaited.
ShutdownEvent ==
    /\ phase = "serving"
    /\ phase' = "stopping"
    /\ jobs' = <<>>
    /\ UNCHANGED <<now, ticks, attempts>>
    /\ UNCHANGED taskVars
    /\ UNCHANGED dbVars
    /\ UNCHANGED schedCallVars
    /\ UNCHANGED call

\* playwright.stop() has returned and the process ends: what is still in
\* flight ends with it, its session uncommitted, and so do the jobs that
\* were added to the stopped scheduler.
ShutdownResume ==
    /\ phase = "stopping"
    /\ phase' = "stopped"
    /\ jobs' = <<>>
    /\ runs' = <<>>
    /\ UNCHANGED <<now, ticks, attempts, nRuns, last>>
    /\ UNCHANGED dbVars
    /\ UNCHANGED schedCallVars
    /\ UNCHANGED call

\* A new process: scheduler = AsyncIOScheduler() holds the two decorated
\* jobs, and startup_event schedules nothing else.
StartupJobs == GlobalJobs

\* startup_event up to its await: init_db() and scheduler.start().
StartupEvent ==
    /\ phase = "stopped"
    /\ phase' = "starting"
    /\ jobs' = StartupJobs
    /\ UNCHANGED <<now, ticks, attempts>>
    /\ UNCHANGED taskVars
    /\ UNCHANGED dbVars
    /\ UNCHANGED schedCallVars
    /\ UNCHANGED call

\* async_playwright().start() has returned: the server begins to serve.
StartupResume ==
    /\ phase = "starting"
    /\ phase' = "serving"
    /\ UNCHANGED <<now, ticks, jobs, attempts>>
    /\ UNCHANGED taskVars
    /\ UNCHANGED dbVars
    /\ UNCHANGED schedCallVars
    /\ UNCHANGED call

----------------------------------------------------------------------------
(* Users (main.py register_user, delete_user_account; auth.py             *)
(* get_current_user)                                                       *)

\* get_current_user: the token's email is looked up in users, 401 when no
\* row has it. The dependency and the handler's code up to its first await
\* run without a suspension in between.
Authenticated(e) == e \in DOMAIN users

\* POST /users/register: 409 for a registered email (nothing changes), else
\* a row with a fresh user_id.
RegisterUser(e) ==
    /\ Serving
    /\ e \notin DOMAIN users
    /\ nextUser <= MaxUsers
    /\ users' = users @@ (e :> nextUser)
    /\ nextUser' = nextUser + 1
    /\ UNCHANGED <<phase, now, ticks, jobs, attempts>>
    /\ UNCHANGED <<products, points, alerts, comparisons, nextPid, nextAlert>>
    /\ UNCHANGED taskVars
    /\ UNCHANGED schedCallVars
    /\ UNCHANGED call

\* DELETE /users/me: db.delete(current_user) deletes the user's alerts with
\* the user (User.alerts has cascade "all, delete-orphan").
DeleteUserAccount(e) ==
    /\ Serving
    /\ Authenticated(e)
    /\ users' = Drop(users, {e})
    /\ alerts' = Drop(alerts, {a \in DOMAIN alerts : alerts[a].user = users[e]})
    /\ UNCHANGED <<phase, now, ticks, jobs, attempts>>
    /\ UNCHANGED <<products, points, comparisons, nextUser, nextPid, nextAlert>>
    /\ UNCHANGED taskVars
    /\ UNCHANGED schedCallVars
    /\ UNCHANGED call

----------------------------------------------------------------------------
(* Scraping, as the callers see it: a record with a price, or an exception *)

ScrapeResults ==
    {[ok |-> FALSE, price |-> 0]} \cup {[ok |-> TRUE, price |-> x] : x \in Prices}

\* Variant: a lookup by url that finds nothing, and no unique constraint.
UrlNeverFound(ps, url) == FALSE

\* A product row with this url is stored: what the handler's lookup finds,
\* and what makes the unique constraint on products.url reject an insert.
UrlTracked(ps, url) == \E p \in DOMAIN ps : ps[p].url = url

----------------------------------------------------------------------------
(* POST /products/track (main.py track_product) *)

TracksInFlight == Cardinality({r \in DOMAIN runs : runs[r].kind = "track"})

\* Up to the first await: the lookup by url, 409 when it finds a product.
TrackStart(e, url) ==
    /\ Serving
    /\ Authenticated(e)
    /\ nextPid + TracksInFlight <= MaxProducts
    /\ IF UrlTracked(products, url)
       THEN /\ last' = [NoRun EXCEPT !.kind = "track", !.url = url, !.out = "conflict"]
            /\ UNCHANGED <<runs, nRuns>>
       ELSE Spawn([NoRun EXCEPT !.kind = "track", !.url = url, !.pc = "scrape"])
    /\ UNCHANGED <<phase, now, ticks, jobs, attempts>>
    /\ UNCHANGED dbVars
    /\ UNCHANGED schedCallVars
    /\ UNCHANGED call

\* From the scrape's return to the response: a failed scrape is a 400; else
\* the product row and its first price record are committed and the two
\* jobs scheduled (on a scheduler that was shut down in the meantime,
\* add_job keeps them as pending jobs, which get_job and remove_job see).
\* The unique constraint on products.url rejects the insert when the url was
\* stored in the meantime. (The background task trigger_initial_comparison
\* hands update_cross_platform_comparison a ProductScraper where it expects
\* playwright, so that call ends in its own except branch before it touches
\* the session.)
TrackResume(r, res) ==
    /\ InFlight(r)
    /\ runs[r].kind = "track"
    /\ runs[r].pc = "scrape"
    /\ IF ~res.ok
       THEN /\ Finish(r, runs[r], "scrape_failed")
            /\ UNCHANGED <<jobs>>
            /\ UNCHANGED dbVars
       ELSE IF UrlTracked(products, runs[r].url)
       THEN /\ Finish(r, runs[r], "integrity_error")
            /\ UNCHANGED <<jobs>>
            /\ UNCHANGED dbVars
       ELSE /\ products' = products @@
                  (nextPid :> [url |-> runs[r].url, price |-> res.price, upd |-> now])
            /\ points' = [points EXCEPT ![nextPid] =
                              <<[price |-> res.price, ts |-> now]>>]
            /\ nextPid' = nextPid + 1
            /\ jobs' = ScheduleProductScraping(jobs, nextPid)
            /\ Finish(r, [runs[r] EXCEPT !.pid = nextPid, !.price = res.price], "ok")
            /\ UNCHANGED <<users, alerts, comparisons, nextUser, nextAlert>>
    /\ UNCHANGED <<phase, now, ticks, attempts>>
    /\ UNCHANGED schedCallVars
    /\ UNCHANGED call

----------------------------------------------------------------------------
(* DELETE /products/{product_id} (main.py delete_product) *)

\* 404 for an unknown product (nothing changes).
DeleteProduct(e, p) ==
    /\ Serving
    /\ Authenticated(e)
    /\ p \in DOMAIN products
    /\ points' = [points EXCEPT ![p] = <<>>]
    /\ alerts' = Drop(alerts, {a \in DOMAIN alerts : alerts[a].pid = p})
    /\ comparisons' = [comparisons EXCEPT ![p] = <<>>]
    /\ products' = Drop(products, {p})
    /\ jobs' = RemoveProductJobs(jobs, p).jobs
    /\ UNCHANGED <<phase, now, ticks, attempts, users, nextUser, nextPid, nextAlert>>
    /\ UNCHANGED taskVars
    /\ UNCHANGED schedCallVars
    /\ UNCHANGED call

----------------------------------------------------------------------------
(* POST /alerts/, DELETE /alerts/{alert_id} (main.py create_alert,         *)
(* delete_alert)                                                           *)

\* Variant: a lookup that never finds the tuple.
AlertNeverExists(as, u, p, t) == FALSE

AlertExists(as, u, p, t) ==
    \E a \in DOMAIN as : as[a].user = u /\ as[a].pid = p /\ as[a].target = t

\* models.Alert: is_active defaults to True, is_triggered to False,
\* date_triggered to NULL (the empty sequence here).
NewAlert(u, p, t) ==
    [user |-> u, pid |-> p, target |-> t, active |-> TRUE,
     triggered |-> FALSE, date |-> <<>>]

\* 400 for an unknown product (nothing changes); 409 when the user already
\* has an alert on the product with this target price; else the alert is
\* stored under the user's id. The handler has no await between the lookup
\* and the commit.
CreateAlert(e, p, t) ==
    /\ Serving
    /\ Authenticated(e)
    /\ p \in DOMAIN products
    /\ IF AlertExists(alerts, users[e], p, t)
       THEN /\ last' = [NoRun EXCEPT !.kind = "alert", !.pid = p,
                                     !.user = users[e], !.target = t,
                                     !.out = "conflict"]
            /\ UNCHANGED <<alerts, nextAlert>>
       ELSE /\ nextAlert <= MaxAlerts
            /\ alerts' = alerts @@ (nextAlert :> NewAlert(users[e], p, t))
            /\ nextAlert' = nextAlert + 1
            /\ last' = last
    /\ UNCHANGED <<phase, now, ticks, jobs, attempts, runs, nRuns>>
    /\ UNCHANGED <<users, products, points, comparisons, nextUser, nextPid>>
    /\ UNCHANGED schedCallVars
    /\ UNCHANGED call

\* 404 when no alert has this id and the caller's user_id (nothing
\* changes); else the row is deleted.
DeleteAlert(e, a) ==
    /\ Serving
    /\ Authenticated(e)
    /\ a \in DOMAIN alerts
    /\ alerts[a].user = users[e]
    /\ alerts' = Drop(alerts, {a})
    /\ UNCHANGED <<phase, now, ticks, jobs, attempts>>
    /\ UNCHANGED <<users, products, points, comparisons, nextUser, nextPid,
                   nextAlert>>
    /\ UNCHANGED taskVars
    /\ UNCHANGED schedCallVars
    /\ UNCHANGED call

----------------------------------------------------------------------------
(* The firing of a product's job (scheduler.py schedule_product_scraping)  *)

\* Variant: a job whose callable raised is taken out of the store.
AfterJobErrorDeregisters(js, id) == RemoveJob(js, id)

\* The job store after a job's callable raised: the executor logs the
\* exception, the job keeps its entry and its trigger.
AfterJobError(js, id) == js

\* Variant: the callable runs where the event loop runs, and the task it
\* creates starts its run.
FireJobStartsTask(kind, p) ==
    /\ SchedulerRunning
    /\ GetJob(jobs, JobId(kind, p))
    /\ p \in DOMAIN products
    /\ nRuns < MaxRuns
    /\ nRuns' = nRuns + 1
    /\ runs' = runs @@ (NextRun :>
                  [NoRun EXCEPT !.rid = NextRun,
                                !.kind = IF kind = "scrape_price" THEN "price"
                                         ELSE "cmp",
                                !.pid = p,
                                !.pc = IF kind = "scrape_price" THEN "scrape"
                                       ELSE "search",
                                !.loaded = products[p].price,
                                !.upd = now])
    /\ last' = [NoRun EXCEPT !.kind = kind, !.pid = p, !.upd = now,
                             !.out = "task_started"]
    /\ UNCHANGED <<phase, now, ticks, jobs, attempts>>
    /\ UNCHANGED dbVars
    /\ UNCHANGED schedCallVars
    /\ UNCHANGED call

\* The scheduler calls the job's callable, the lambda
\* asyncio.create_task(scrape_product_job(product_id)) (compare_product_job
\* for the comparison job). The lambda is not a coroutine function, so the
\* scheduler's executor runs it in a worker thread, where
\* asyncio.create_task finds no running event loop and raises RuntimeError:
\* no task exists, the executor logs the exception, and the job stays
\* scheduled.
FireJobNoLoop(kind, p) ==
    /\ SchedulerRunning
    /\ GetJob(jobs, JobId(kind, p))
    /\ jobs' = AfterJobError(jobs, JobId(kind, p))
    /\ last' = [NoRun EXCEPT !.kind = kind, !.pid = p, !.upd = now,
                             !.out = "no_event_loop"]
    /\ UNCHANGED <<phase, now, ticks, attempts, runs, nRuns>>
    /\ UNCHANGED dbVars
    /\ UNCHANGED schedCallVars
    /\ UNCHANGED call

----------------------------------------------------------------------------
(* The price run (scheduler.py scrape_product_job -> scraper.py            *)
(* update_product_price)                                                   *)

\* scrape_product_job(product_id) is called on the event loop: a session of
\* its own, then update_product_price up to its first await: the product
\* lookup, and the return when there is no such product.
ScrapeProductJob(p) ==
    /\ Alive
    /\ IF p \in DOMAIN products
       THEN Spawn([NoRun EXCEPT !.kind = "price", !.pid = p, !.pc = "scrape",
                                !.loaded = products[p].price, !.upd = now])
       ELSE /\ last' = [NoRun EXCEPT !.kind = "price", !.pid = p, !.out = "absent"]
            /\ UNCHANGED <<runs, nRuns>>
    /\ UNCHANGED <<phase, now, ticks, jobs, attempts>>
    /\ UNCHANGED dbVars
    /\ UNCHANGED schedCallVars
    /\ UNCHANGED call

\* The ids of a set of rows, in insertion order (ids are handed out in order).
InOrder(ids) ==
    [i \in 1..Cardinality(ids) |->
        CHOOSE a \in ids : Cardinality({b \in ids : b < a}) = i - 1]

\* Variant: the query without Alert.is_triggered == False.
SelectAlertsNoTriggeredFilter(as, p, price) ==
    InOrder({a \in DOMAIN as :
                /\ as[a].pid = p
                /\ as[a].active
                /\ as[a].target >= price})

\* The query of update_product_price: the product's alerts with is_active,
\* not is_triggered and target_price >= new_price, read from the database
\* as committed when the query runs.
SelectAlerts(as, p, price) ==
    InOrder({a \in DOMAIN as :
                /\ as[a].pid = p
                /\ as[a].active
                /\ ~as[a].triggered
                /\ as[a].target >= price})

\* The flush of db.commit(): UPDATE products, INSERT price_records, UPDATE
\* alerts, each UPDATE expecting to match its row (StaleDataError if not).
CommitPossible(run) ==
    /\ run.pid \in DOMAIN products
    /\ \A a \in Range(run.sel) : a \in DOMAIN alerts

\* The UPDATE of the product row carries the columns whose value differs
\* from what the session loaded: updated_at, and current_price only when
\* the scraped price is not the loaded one.
ProductsAfter(run) ==
    [products EXCEPT
        ![run.pid].price = IF run.price # run.loaded THEN run.price ELSE @,
        ![run.pid].upd = run.upd]

PointsAfter(run) ==
    [points EXCEPT ![run.pid] = Append(@, [price |-> run.price, ts |-> now])]

AlertsAfter(run) ==
    [a \in DOMAIN alerts |->
        IF \E i \in DOMAIN run.sel : run.sel[i] = a
        THEN [alerts[a] EXCEPT
                 !.triggered = TRUE,
                 !.date = <<run.dates[CHOOSE i \in DOMAIN run.sel : run.sel[i] = a]>>]
        ELSE alerts[a]]

\* db.commit() at the end of the run, or the except branch's db.rollback()
\* when the commit raises (dbok is FALSE when the database refuses it).
PriceCommit(r, run, dbok) ==
    IF dbok /\ CommitPossible(run)
    THEN /\ products' = ProductsAfter(run)
         /\ points' = PointsAfter(run)
         /\ alerts' = AlertsAfter(run)
         /\ Finish(r, run, "committed")
    ELSE /\ Finish(r, run, "commit_failed")
         /\ UNCHANGED <<products, points, alerts>>

\* alert.user for the i-th selected alert: the session's own copy of the
\* user if it has loaded one, else the row in users; None when the user has
\* been deleted, and then user.email raises inside the try around the send.
UserFound(run, i) == run.selUser[i] \in run.known \cup Range(users)

\* The first selected alert from position k on whose user is found, 0 if
\* there is none.
FirstFound(run, k) ==
    LET found == {i \in k..Len(run.sel) : UserFound(run, i)}
    IN  IF found = {} THEN 0 ELSE CHOOSE i \in found : \A j \in found : i <= j

\* The selected alerts up to position n are marked: is_triggered, and
\* date_triggered = utcnow() for those not marked before.
Marked(run, n) ==
    [run EXCEPT !.dates = [j \in 1..n |->
                              IF j <= Len(run.dates) THEN run.dates[j] ELSE now]]

\* The loop over the selected alerts from position k on, up to its next
\* await: every alert is marked; send_price_drop_alert is called for the
\* first one whose user is found; when there is none the run commits.
NotifyFrom(r, run, k, dbok) ==
    LET i == FirstFound(run, k)
    IN  IF i = 0
        THEN /\ PriceCommit(r, Marked(run, Len(run.sel)), dbok)
             /\ UNCHANGED attempts
        ELSE /\ runs' = [runs EXCEPT ![r] =
                            [Marked(run, i) EXCEPT
                                !.pc = "send",
                                !.sent = Append(@, run.sel[i]),
                                !.known = @ \cup {run.selUser[i]}]]
             /\ attempts' = [attempts EXCEPT ![run.sel[i]] = @ + 1]
             /\ UNCHANGED <<nRuns, last, products, points, alerts>>

\* Variant: a failed scrape that still stores updated_at.
PriceScrapeFailedKeepsTimestamp(r) ==
    /\ Finish(r, runs[r], "scrape_failed")
    /\ products' = [products EXCEPT ![runs[r].pid].upd = now]
    /\ UNCHANGED <<points, alerts, attempts>>

\* scrape_product (or the browser launch) raised: the except branch logs
\* and rolls back a session that holds no change yet.
PriceScrapeFailed(r) ==
    /\ Finish(r, runs[r], "scrape_failed")
    /\ UNCHANGED <<products, points, alerts, attempts>>

\* The scrape returned: price and updated_at are assigned, the price record
\* added, the alerts selected, and the loop over them entered.
PriceScraped(r, price, dbok) ==
    LET sel == SelectAlerts(alerts, runs[r].pid, price)
        run == [runs[r] EXCEPT !.price = price, !.upd = now, !.sel = sel,
                               !.selUser = [i \in DOMAIN sel |-> alerts[sel[i]].user]]
    IN  NotifyFrom(r, run, 1, dbok)

PriceScrapeDone(r, res, dbok) ==
    /\ InFlight(r)
    /\ runs[r].kind = "price"
    /\ runs[r].pc = "scrape"
    /\ IF res.ok THEN PriceScraped(r, res.price, dbok) ELSE PriceScrapeFailed(r)
    /\ UNCHANGED <<phase, now, ticks, jobs, users, comparisons, nextUser,
                   nextPid, nextAlert>>
    /\ UNCHANGED schedCallVars
    /\ UNCHANGED call

\* Variant: a failed delivery propagates to the outer except (rollback).
SendFailureAborts(r, run, delivered, dbok) ==
    IF ~delivered
    THEN /\ Finish(r, run, "send_failed")
         /\ UNCHANGED <<products, points, alerts, attempts>>
    ELSE NotifyFrom(r, run, Len(run.dates) + 1, dbok)

\* send_price_drop_alert returned, having delivered or having logged its
\* failure (it catches its own exceptions, and so does the caller): the
\* loop goes on to the next alert, and after the last one the run commits.
AfterSend(r, run, delivered, dbok) ==
    NotifyFrom(r, run, Len(run.dates) + 1, dbok)

PriceSendDone(r, delivered, dbok) ==
    /\ InFlight(r)
    /\ runs[r].kind = "price"
    /\ runs[r].pc = "send"
    /\ LET a == runs[r].sent[Len(runs[r].sent)]
           run == [runs[r] EXCEPT
                      !.failed = IF delivered THEN @ ELSE @ \cup {a}]
       IN  AfterSend(r, run, delivered, dbok)
    /\ UNCHANGED <<phase, now, ticks, jobs, users, comparisons, nextUser,
                   nextPid, nextAlert>>
    /\ UNCHANGED schedCallVars
    /\ UNCHANGED call

----------------------------------------------------------------------------
(* POST /scheduler/trigger/{product_id} (main.py trigger_manual_scrape)    *)

\* 404 for an unknown product; else the background task
\* scrape_and_update_product is queued and "scrape_started" returned.
ManualRescan(e, p) ==
    /\ Serving
    /\ Authenticated(e)
    /\ p \in DOMAIN products
    /\ Spawn([NoRun EXCEPT !.kind = "manual", !.pid = p, !.pc = "start"])
    /\ UNCHANGED <<phase, now, ticks, jobs, attempts>>
    /\ UNCHANGED dbVars
    /\ UNCHANGED schedCallVars
    /\ UNCHANGED call

\* The background task: "from scraper import update_product_price" names a
\* module that the package does not provide at top level, and the call
\* passes two of the three arguments update_product_price requires. Either
\* way the task raises before a reconciler run exists.
ManualTask(r) ==
    /\ InFlight(r)
    /\ runs[r].kind = "manual"
    /\ Finish(r, runs[r], "error")
    /\ UNCHANGED <<phase, now, ticks, jobs, attempts>>
    /\ UNCHANGED dbVars
    /\ UNCHANGED schedCallVars
    /\ UNCHANGED call

----------------------------------------------------------------------------
(* The retention sweep (scheduler.py cleanup_old_records) *)

\* Variant: the cutoff itself counts as old (timestamp <= cutoff).
RetainedStrictlyNewer(ps, t) == SelectSeq(ps, LAMBDA x : x.ts > t - RetentionDays)

\* What the DELETE ... WHERE timestamp < cutoff leaves of a product's records.
Retained(ps, t) == SelectSeq(ps, LAMBDA x : ~(x.ts < t - RetentionDays))

RECURSIVE SumLen(_, _)
SumLen(f, S) ==
    IF S = {} THEN 0
    ELSE LET x == CHOOSE y \in S : TRUE IN Len(f[x]) + SumLen(f, S \ {x})

\* cleanup_old_records, a coroutine function (the scheduler's executor runs
\* it on the event loop) without an await: one DELETE over all products'
\* records and the commit, or the rollback when the database raises (dbok
\* is FALSE). It ends as a task whose record holds the cutoff time and the
\* number of rows deleted.
RetentionSweep(dbok) ==
    /\ SchedulerRunning
    /\ GetJob(jobs, JobId("cleanup_old_records", 0))
    /\ LET kept == [p \in ProductIds |-> Retained(points[p], now)]
       IN  IF dbok
           THEN /\ points' = kept
                /\ last' = [NoRun EXCEPT
                               !.kind = "sweep", !.out = "committed", !.upd = now,
                               !.deleted = SumLen(points, ProductIds)
                                             - SumLen(kept, ProductIds)]
           ELSE /\ points' = points
                /\ last' = [NoRun EXCEPT !.kind = "sweep", !.out = "failed",
                                         !.upd = now]
    /\ UNCHANGED <<phase, now, ticks, jobs, attempts, runs, nRuns>>
    /\ UNCHANGED <<users, products, alerts, comparisons, nextUser, nextPid,
                   nextAlert>>
    /\ UNCHANGED schedCallVars
    /\ UNCHANGED call

----------------------------------------------------------------------------
(* Matching (scraper.py fuzzy_best_match, search_cross_platform) *)

Cands(platform) ==
    {[platform |-> platform, name |-> n, price |-> x] :
        n \in Titles, x \in CandPrices}

SeqsUpTo(S, n) == UNION {[1..k -> S] : k \in 0..n}

\* fuzz.token_set_ratio(search_target, title), for the titles of the model.
Similarity(title) ==
    CASE title = "same" -> 100
      [] title = "edge" -> 80
      [] OTHER -> 79

\* Variant: the last index that holds the highest score.
BestIndexLast(cands) ==
    CHOOSE i \in DOMAIN cands :
        /\ \A j \in DOMAIN cands :
               Similarity(cands[j].name) <= Similarity(cands[i].name)
        /\ \A j \in DOMAIN cands :
               j > i => Similarity(cands[j].name) < Similarity(cands[i].name)

\* process.extractOne: the first index that holds the highest score.
BestIndex(cands) ==
    CHOOSE i \in DOMAIN cands :
        /\ \A j \in DOMAIN cands :
               Similarity(cands[j].name) <= Similarity(cands[i].name)
        /\ \A j \in DOMAIN cands :
               j < i => Similarity(cands[j].name) < Similarity(cands[i].name)

FuzzyBestMatch(cands, threshold) ==
    IF cands = <<>> THEN <<>>
    ELSE LET i == BestIndex(cands)
             score == Similarity(cands[i].name)
         IN  IF score >= threshold
             THEN << [platform |-> cands[i].platform, name |-> cands[i].name,
                      price |-> cands[i].price, match_score |-> score] >>
             ELSE <<>>

\* search_cross_platform: Flipkart's candidates, then Meesho's, and one
\* match over the concatenation.
SearchCrossPlatform(flip, mee) ==
    LET results == flip \o mee
    IN  IF results = <<>> THEN <<>> ELSE FuzzyBestMatch(results, MatchThreshold)

----------------------------------------------------------------------------
(* The comparison run (scheduler.py compare_product_job -> scraper.py      *)
(* update_cross_platform_comparison)                                       *)

\* compare_product_job(product_id) is called on the event loop: a session
\* of its own, then update_cross_platform_comparison up to its first await:
\* the product lookup, and the return when there is no such product.
CompareProductJobWithin(bound, p) ==
    /\ Alive
    /\ IF p \in DOMAIN products
       THEN SpawnWithin(bound, [NoRun EXCEPT !.kind = "cmp", !.pid = p,
                                            !.pc = "search"])
       ELSE /\ last' = [NoRun EXCEPT !.kind = "cmp", !.pid = p, !.out = "absent"]
            /\ UNCHANGED <<runs, nRuns>>
    /\ UNCHANGED <<phase, now, ticks, jobs, attempts>>
    /\ UNCHANGED dbVars
    /\ UNCHANGED schedCallVars
    /\ UNCHANGED call

CompareProductJob(p) == CompareProductJobWithin(MaxRuns, p)

\* One PlatformComparison row per search result, last_checked = utcnow().
Rows(found, t) ==
    [i \in DOMAIN found |->
        [platform |-> found[i].platform, name |-> found[i].name,
         price |-> found[i].price, checked |-> t]]

\* Variant: the DELETE has no WHERE clause.
CmpTransactionUnscoped(cmp, p, found, t, failAt) ==
    LET afterDelete == [q \in DOMAIN cmp |-> <<>>]
        afterInsert == [afterDelete EXCEPT ![p] = @ \o Rows(found, t)]
    IN  IF failAt = "none" THEN afterInsert ELSE cmp

\* Variant: the new rows are added without the DELETE.
CmpTransactionMerges(cmp, p, found, t, failAt) ==
    IF failAt = "none" THEN [cmp EXCEPT ![p] = @ \o Rows(found, t)] ELSE cmp

\* Variant: the DELETE is committed on its own, before the inserts.
CmpTransactionNoRollback(cmp, p, found, t, failAt) ==
    IF failAt = "none" THEN [cmp EXCEPT ![p] = Rows(found, t)]
    ELSE [cmp EXCEPT ![p] = <<>>]

\* The session's transaction: DELETE the product's rows, add the new ones,
\* db.commit(). An exception after the DELETE (failAt "after_delete": while
\* the rows are built, or in the commit) reaches the except branch, whose
\* db.rollback() undoes the DELETE. SQLite does not enforce the foreign key
\* to products, so the rows are stored whether or not the product is.
CmpTransaction(cmp, p, found, t, failAt) ==
    LET afterDelete == [cmp EXCEPT ![p] = <<>>]
        afterInsert == [afterDelete EXCEPT ![p] = @ \o Rows(found, t)]
    IN  IF failAt = "none" THEN afterInsert ELSE cmp

FailPoints == {"none", "after_delete"}

\* The search returned or raised. A raise (browser launch, new_page, the
\* snapshot in a search's except branch) goes to the except branch before
\* the session holds anything.
CmpSearchDone(r, raised, flip, mee, failAt) ==
    /\ InFlight(r)
    /\ runs[r].kind = "cmp"
    /\ runs[r].pc = "search"
    /\ IF raised
       THEN /\ Finish(r, [runs[r] EXCEPT !.before = comparisons[runs[r].pid]],
                      "search_failed")
            /\ UNCHANGED comparisons
       ELSE LET found == SearchCrossPlatform(flip, mee)
                run == [runs[r] EXCEPT !.found = found,
                                       !.before = comparisons[runs[r].pid]]
            IN  /\ comparisons' =
                       CmpTransaction(comparisons, run.pid, found, now, failAt)
                /\ Finish(r, run, IF failAt = "none" THEN "committed"
                                  ELSE "commit_failed")
    /\ UNCHANGED <<phase, now, ticks, jobs, attempts>>
    /\ UNCHANGED <<users, products, points, alerts, nextUser, nextPid, nextAlert>>
    /\ UNCHANGED schedCallVars
    /\ UNCHANGED call

----------------------------------------------------------------------------
(* Direct calls of the scheduler's two functions *)

CallSchedule(p) ==
    /\ nSched[p] < MaxCalls
    /\ nSched' = [nSched EXCEPT ![p] = @ + 1]
    /\ jobs' = ScheduleProductScraping(jobs, p)
    /\ UNCHANGED <<nRemoved, schedError, call>>
    /\ UNCHANGED <<phase, now, ticks, attempts>>
    /\ UNCHANGED taskVars
    /\ UNCHANGED dbVars

CallRemove(p) ==
    /\ nRemoved[p] < MaxCalls
    /\ nRemoved' = [nRemoved EXCEPT ![p] = @ + 1]
    /\ jobs' = RemoveProductJobs(jobs, p).jobs
    /\ schedError' = (schedError \/ RemoveProductJobs(jobs, p).raised)
    /\ UNCHANGED <<nSched, call>>
    /\ UNCHANGED <<phase, now, ticks, attempts>>
    /\ UNCHANGED taskVars
    /\ UNCHANGED dbVars

----------------------------------------------------------------------------
(* Text: a Python str is the sequence of its characters *)

\* Text is a sequence of Unicode code points (0 .. 1114111). Ascii lists
\* the printable ASCII characters from the space (code point 32) on, and
\* Code gives the code points of a text written with them (the quote, the
\* backslash and the grave accent are named, not written).
Ascii ==
    <<" ", "!", "quote", "#", "$", "%", "&", "'", "(", ")", "*", "+", ",",
      "-", ".", "/", "0", "1", "2", "3", "4", "5", "6", "7", "8", "9", ":",
      ";", "<", "=", ">", "?", "@", "A", "B", "C", "D", "E", "F", "G", "H",
      "I", "J", "K", "L", "M", "N", "O", "P", "Q", "R", "S", "T", "U", "V",
      "W", "X", "Y", "Z", "[", "backslash", "]", "^", "_", "grave", "a", "b",
      "c", "d", "e", "f", "g", "h", "i", "j", "k", "l", "m", "n", "o", "p",
      "q", "r", "s", "t", "u", "v", "w", "x", "y", "z", "{", "|", "}", "~">>

Code(s) == [i \in DOMAIN s |-> 31 + CHOOSE k \in DOMAIN Ascii : Ascii[k] = s[i]]

\* A class of characters is given by its bounds in increasing order: the
\* code points at which the class begins and ends in turn, so that c is of
\* the class when the number of bounds up to c is odd. The classes are
\* those of the interpreter the program runs on (Unicode 14.0.0).
InBounds(c, bounds) ==
    Cardinality({i \in DOMAIN bounds : bounds[i] <= c}) % 2 = 1

\* The characters for which str.isalnum() holds.
WordBounds ==
    <<48, 58, 65, 91, 97, 123, 170, 171, 178, 180, 181, 182, 185, 187, 188,
      191, 192, 215, 216, 247, 248, 706, 710, 722, 736, 741, 748, 749, 750,
      751, 880, 885, 886, 888, 890, 894, 895, 896, 902, 903, 904, 907, 908,
      909, 910, 930, 931, 1014, 1015, 1154, 1162, 1328, 1329, 1367, 1369,
      1370, 1376, 1417, 1488, 1515, 1519, 1523, 1568, 1611, 1632, 1642,
      1646, 1648, 1649, 1748, 1749, 1750, 1765, 1767, 1774, 1789, 1791,
      1792, 1808, 1809, 1810, 1840, 1869, 1958, 1969, 1970, 1984, 2027,
      2036, 2038, 2042, 2043, 2048, 2070, 2074, 2075, 2084, 2085, 2088,
      2089, 2112, 2137, 2144, 2155, 2160, 2184, 2185, 2191, 2208, 2250,
      2308, 2362, 2365, 2366, 2384, 2385, 2392, 2402, 2406, 2416, 2417,
      2433, 2437, 2445, 2447, 2449, 2451, 2473, 2474, 2481, 2482, 2483,
      2486, 2490, 2493, 2494, 2510, 2511, 2524, 2526, 2527, 2530, 2534,
      2546, 2548, 2554, 2556, 2557, 2565, 2571, 2575, 2577, 2579, 2601,
      2602, 2609, 2610, 2612, 2613, 2615, 2616, 2618, 2649, 2653, 2654,
      2655, 2662, 2672, 2674, 2677, 2693, 2702, 2703, 2706, 2707, 2729,
      2730, 2737, 2738, 2740, 2741, 2746, 2749, 2750, 2768, 2769, 2784,
      2786, 2790, 2800, 2809, 2810, 2821, 2829, 2831, 2833, 2835, 2857,
      2858, 2865, 2866, 2868, 2869, 2874, 2877, 2878, 2908, 2910, 2911,
      2914, 2918, 2928, 2929, 2936, 2947, 2948, 2949, 2955, 2958, 2961,
      2962, 2966, 2969, 2971, 2972, 2973, 2974, 2976, 2979, 2981, 2984,
      2987, 2990, 3002, 3024, 3025, 3046, 3059, 3077, 3085, 3086, 3089,
      3090, 3113, 3114, 3130, 3133, 3134, 3160, 3163, 3165, 3166, 3168,
      3170, 3174, 3184, 3192, 3199, 3200, 3201, 3205, 3213, 3214, 3217,
      3218, 3241, 3242, 3252, 3253, 3258, 3261, 3262, 3293, 3295, 3296,
      3298, 3302, 3312, 3313, 3315, 3332, 3341, 3342, 3345, 3346, 3387,
      3389, 3390, 3406, 3407, 3412, 3415, 3416, 3426, 3430, 3449, 3450,
      3456, 3461, 3479, 3482, 3506, 3507, 3516, 3517, 3518, 3520, 3527,
      3558, 3568, 3585, 3633, 3634, 3636, 3648, 3655, 3664, 3674, 3713,
      3715, 3716, 3717, 3718, 3723, 3724, 3748, 3749, 3750, 3751, 3761,
      3762, 3764, 3773, 3774, 3776, 3781, 3782, 3783, 3792, 3802, 3804,
      3808, 3840, 3841, 3872, 3892, 3904, 3912, 3913, 3949, 3976, 3981,
      4096, 4139, 4159, 4170, 4176, 4182, 4186, 4190, 4193, 4194, 4197,
      4199, 4206, 4209, 4213, 4226, 4238, 4239, 4240, 4250, 4256, 4294,
      4295, 4296, 4301, 4302, 4304, 4347, 4348, 4681, 4682, 4686, 4688,
      4695, 4696, 4697, 4698, 4702, 4704, 4745, 4746, 4750, 4752, 4785,
      4786, 4790, 4792, 4799, 4800, 4801, 4802, 4806, 4808, 4823, 4824,
      4881, 4882, 4886, 4888, 4955, 4969, 4989, 4992, 5008, 5024, 5110,
      5112, 5118, 5121, 5741, 5743, 5760, 5761, 5787, 5792, 5867, 5870,
      5881, 5888, 5906, 5919, 5938, 5952, 5970, 5984, 5997, 5998, 6001,
      6016, 6068, 6103, 6104, 6108, 6109, 6112, 6122, 6128, 6138, 6160,
      6170, 6176, 6265, 6272, 6277, 6279, 6313, 6314, 6315, 6320, 6390,
      6400, 6431, 6470, 6510, 6512, 6517, 6528, 6572, 6576, 6602, 6608,
      6619, 6656, 6679, 6688, 6741, 6784, 6794, 6800, 6810, 6823, 6824,
      6917, 6964, 6981, 6989, 6992, 7002, 7043, 7073, 7086, 7142, 7168,
      7204, 7232, 7242, 7245, 7294, 7296, 7305, 7312, 7355, 7357, 7360,
      7401, 7405, 7406, 7412, 7413, 7415, 7418, 7419, 7424, 7616, 7680,
      7958, 7960, 7966, 7968, 8006, 8008, 8014, 8016, 8024, 8025, 8026,
      8027, 8028, 8029, 8030, 8031, 8062, 8064, 8117, 8118, 8125, 8126,
      8127, 8130, 8133, 8134, 8141, 8144, 8148, 8150, 8156, 8160, 8173,
      8178, 8181, 8182, 8189, 8304, 8306, 8308, 8314, 8319, 8330, 8336,
      8349, 8450, 8451, 8455, 8456, 8458, 8468, 8469, 8470, 8473, 8478,
      8484, 8485, 8486, 8487, 8488, 8489, 8490, 8494, 8495, 8506, 8508,
      8512, 8517, 8522, 8526, 8527, 8528, 8586, 9312, 9372, 9450, 9472,
      10102, 10132, 11264, 11493, 11499, 11503, 11506, 11508, 11517, 11518,
      11520, 11558, 11559, 11560, 11565, 11566, 11568, 11624, 11631, 11632,
      11648, 11671, 11680, 11687, 11688, 11695, 11696, 11703, 11704, 11711,
      11712, 11719, 11720, 11727, 11728, 11735, 11736, 11743, 11823, 11824,
      12293, 12296, 12321, 12330, 12337, 12342, 12344, 12349, 12353, 12439,
      12445, 12448, 12449, 12539, 12540, 12544, 12549, 12592, 12593, 12687,
      12690, 12694, 12704, 12736, 12784, 12800, 12832, 12842, 12872, 12880,
      12881, 12896, 12928, 12938, 12977, 12992, 13312, 19904, 19968, 42125,
      42192, 42238, 42240, 42509, 42512, 42540, 42560, 42607, 42623, 42654,
      42656, 42736, 42775, 42784, 42786, 42889, 42891, 42955, 42960, 42962,
      42963, 42964, 42965, 42970, 42994, 43010, 43011, 43014, 43015, 43019,
      43020, 43043, 43056, 43062, 43072, 43124, 43138, 43188, 43216, 43226,
      43250, 43256, 43259, 43260, 43261, 43263, 43264, 43302, 43312, 43335,
      43360, 43389, 43396, 43443, 43471, 43482, 43488, 43493, 43494, 43519,
      43520, 43561, 43584, 43587, 43588, 43596, 43600, 43610, 43616, 43639,
      43642, 43643, 43646, 43696, 43697, 43698, 43701, 43703, 43705, 43710,
      43712, 43713, 43714, 43715, 43739, 43742, 43744, 43755, 43762, 43765,
      43777, 43783, 43785, 43791, 43793, 43799, 43808, 43815, 43816, 43823,
      43824, 43867, 43868, 43882, 43888, 44003, 44016, 44026, 44032, 55204,
      55216, 55239, 55243, 55292, 63744, 64110, 64112, 64218, 64256, 64263,
      64275, 64280, 64285, 64286, 64287, 64297, 64298, 64311, 64312, 64317,
      64318, 64319, 64320, 64322, 64323, 64325, 64326, 64434, 64467, 64830,
      64848, 64912, 64914, 64968, 65008, 65020, 65136, 65141, 65142, 65277,
      65296, 65306, 65313, 65339, 65345, 65371, 65382, 65471, 65474, 65480,
      65482, 65488, 65490, 65496, 65498, 65501, 65536, 65548, 65549, 65575,
      65576, 65595, 65596, 65598, 65599, 65614, 65616, 65630, 65664, 65787,
      65799, 65844, 65856, 65913, 65930, 65932, 66176, 66205, 66208, 66257,
      66273, 66300, 66304, 66340, 66349, 66379, 66384, 66422, 66432, 66462,
      66464, 66500, 66504, 66512, 66513, 66518, 66560, 66718, 66720, 66730,
      66736, 66772, 66776, 66812, 66816, 66856, 66864, 66916, 66928, 66939,
      66940, 66955, 66956, 66963, 66964, 66966, 66967, 66978, 66979, 66994,
      66995, 67002, 67003, 67005, 67072, 67383, 67392, 67414, 67424, 67432,
      67456, 67462, 67463, 67505, 67506, 67515, 67584, 67590, 67592, 67593,
      67594, 67638, 67639, 67641, 67644, 67645, 67647, 67670, 67672, 67703,
      67705, 67743, 67751, 67760, 67808, 67827, 67828, 67830, 67835, 67868,
      67872, 67898, 67968, 68024, 68028, 68048, 68050, 68097, 68112, 68116,
      68117, 68120, 68121, 68150, 68160, 68169, 68192, 68223, 68224, 68256,
      68288, 68296, 68297, 68325, 68331, 68336, 68352, 68406, 68416, 68438,
      68440, 68467, 68472, 68498, 68521, 68528, 68608, 68681, 68736, 68787,
      68800, 68851, 68858, 68900, 68912, 68922, 69216, 69247, 69248, 69290,
      69296, 69298, 69376, 69416, 69424, 69446, 69457, 69461, 69488, 69506,
      69552, 69580, 69600, 69623, 69635, 69688, 69714, 69744, 69745, 69747,
      69749, 69750, 69763, 69808, 69840, 69865, 69872, 69882, 69891, 69927,
      69942, 69952, 69956, 69957, 69959, 69960, 69968, 70003, 70006, 70007,
      70019, 70067, 70081, 70085, 70096, 70107, 70108, 70109, 70113, 70133,
      70144, 70162, 70163, 70188, 70272, 70279, 70280, 70281, 70282, 70286,
      70287, 70302, 70303, 70313, 70320, 70367, 70384, 70394, 70405, 70413,
      70415, 70417, 70419, 70441, 70442, 70449, 70450, 70452, 70453, 70458,
      70461, 70462, 70480, 70481, 70493, 70498, 70656, 70709, 70727, 70731,
      70736, 70746, 70751, 70754, 70784, 70832, 70852, 70854, 70855, 70856,
      70864, 70874, 71040, 71087, 71128, 71132, 71168, 71216, 71236, 71237,
      71248, 71258, 71296, 71339, 71352, 71353, 71360, 71370, 71424, 71451,
      71472, 71484, 71488, 71495, 71680, 71724, 71840, 71923, 71935, 71943,
      71945, 71946, 71948, 71956, 71957, 71959, 71960, 71984, 71999, 72000,
      72001, 72002, 72016, 72026, 72096, 72104, 72106, 72145, 72161, 72162,
      72163, 72164, 72192, 72193, 72203, 72243, 72250, 72251, 72272, 72273,
      72284, 72330, 72349, 72350, 72368, 72441, 72704, 72713, 72714, 72751,
      72768, 72769, 72784, 72813, 72818, 72848, 72960, 72967, 72968, 72970,
      72971, 73009, 73030, 73031, 73040, 73050, 73056, 73062, 73063, 73065,
      73066, 73098, 73112, 73113, 73120, 73130, 73440, 73459, 73648, 73649,
      73664, 73685, 73728, 74650, 74752, 74863, 74880, 75076, 77712, 77809,
      77824, 78895, 82944, 83527, 92160, 92729, 92736, 92767, 92768, 92778,
      92784, 92863, 92864, 92874, 92880, 92910, 92928, 92976, 92992, 92996,
      93008, 93018, 93019, 93026, 93027, 93048, 93053, 93072, 93760, 93847,
      93952, 94027, 94032, 94033, 94099, 94112, 94176, 94178, 94179, 94180,
      94208, 100344, 100352, 101590, 101632, 101641, 110576, 110580, 110581,
      110588, 110589, 110591, 110592, 110883, 110928, 110931, 110948,
      110952, 110960, 111356, 113664, 113771, 113776, 113789, 113792,
      113801, 113808, 113818, 119520, 119540, 119648, 119673, 119808,
      119893, 119894, 119965, 119966, 119968, 119970, 119971, 119973,
      119975, 119977, 119981, 119982, 119994, 119995, 119996, 119997,
      120004, 120005, 120070, 120071, 120075, 120077, 120085, 120086,
      120093, 120094, 120122, 120123, 120127, 120128, 120133, 120134,
      120135, 120138, 120145, 120146, 120486, 120488, 120513, 120514,
      120539, 120540, 120571, 120572, 120597, 120598, 120629, 120630,
      120655, 120656, 120687, 120688, 120713, 120714, 120745, 120746,
      120771, 120772, 120780, 120782, 120832, 122624, 122655, 123136,
      123181, 123191, 123198, 123200, 123210, 123214, 123215, 123536,
      123566, 123584, 123628, 123632, 123642, 124896, 124903, 124904,
      124908, 124909, 124911, 124912, 124927, 124928, 125125, 125127,
      125136, 125184, 125252, 125259, 125260, 125264, 125274, 126065,
      126124, 126125, 126128, 126129, 126133, 126209, 126254, 126255,
      126270, 126464, 126468, 126469, 126496, 126497, 126499, 126500,
      126501, 126503, 126504, 126505, 126515, 126516, 126520, 126521,
      126522, 126523, 126524, 126530, 126531, 126535, 126536, 126537,
      126538, 126539, 126540, 126541, 126544, 126545, 126547, 126548,
      126549, 126551, 126552, 126553, 126554, 126555, 126556, 126557,
      126558, 126559, 126560, 126561, 126563, 126564, 126565, 126567,
      126571, 126572, 126579, 126580, 126584, 126585, 126589, 126590,
      126591, 126592, 126602, 126603, 126620, 126625, 126628, 126629,
      126634, 126635, 126652, 127232, 127245, 130032, 130042, 131072,
      173792, 173824, 177977, 177984, 178206, 178208, 183970, 183984,
      191457, 194560, 195102, 196608, 201547>>

\* \w of the re module on a str pattern: a character for which
\* str.isalnum() holds, or the underscore; \b stands between a character
\* of the class and one that is not, or the end of the text.
IsWord(c) == c = 95 \/ InBounds(c, WordBounds)

\* [A-Z0-9] of the pattern of extract_model.
ModelChars == (65..90) \cup (48..57)

\* The decimal digits (\d of the re module on a str pattern, and the digits
\* that float() reads) come in runs of ten, from a zero to a nine:
\* the zeros.
DecimalZeros ==
    <<48, 1632, 1776, 1984, 2406, 2534, 2662, 2790, 2918, 3046, 3174, 3302,
      3430, 3558, 3664, 3792, 3872, 4160, 4240, 6112, 6160, 6470, 6608,
      6784, 6800, 6992, 7088, 7232, 7248, 42528, 43216, 43264, 43472, 43504,
      43600, 44016, 65296, 66720, 68912, 69734, 69872, 69942, 70096, 70384,
      70736, 70864, 71248, 71360, 71472, 71904, 72016, 72784, 73040, 73120,
      92768, 92864, 93008, 120782, 120792, 120802, 120812, 120822, 123200,
      123632, 125264, 130032>>

DecimalDigits == UNION {z..(z + 9) : z \in Range(DecimalZeros)}

\* The characters for which str.isspace() holds, which str.strip() removes.
Whitespace ==
    {9, 10, 11, 12, 13, 28, 29, 30, 31, 32, 133, 160, 5760, 8232, 8233, 8239, 8287, 12288}
        \cup (8192..8202)

\* str.strip()
Strip(t) ==
    LET inked == {i \in DOMAIN t : t[i] \notin Whitespace}
    IN  IF inked = {} THEN <<>>
        ELSE SubSeq(t, CHOOSE i \in inked : \A j \in inked : i <= j,
                       CHOOSE i \in inked : \A j \in inked : j <= i)

\* The lower-case mapping of single characters: <<first, last, step, d>>
\* maps every step-th character from first to last to the one d further.
LowerTable ==
    <<<<65, 90, 1, 32>>, <<192, 214, 1, 32>>, <<216, 222, 1, 32>>,
      <<256, 302, 2, 1>>, <<306, 310, 2, 1>>, <<313, 327, 2, 1>>,
      <<330, 374, 2, 1>>, <<376, 376, 1, -121>>, <<377, 381, 2, 1>>,
      <<385, 385, 1, 210>>, <<386, 388, 2, 1>>, <<390, 390, 1, 206>>,
      <<391, 391, 1, 1>>, <<393, 394, 1, 205>>, <<395, 395, 1, 1>>,
      <<398, 398, 1, 79>>, <<399, 399, 1, 202>>, <<400, 400, 1, 203>>,
      <<401, 401, 1, 1>>, <<403, 403, 1, 205>>, <<404, 404, 1, 207>>,
      <<406, 406, 1, 211>>, <<407, 407, 1, 209>>, <<408, 408, 1, 1>>,
      <<412, 412, 1, 211>>, <<413, 413, 1, 213>>, <<415, 415, 1, 214>>,
      <<416, 420, 2, 1>>, <<422, 422, 1, 218>>, <<423, 423, 1, 1>>,
      <<425, 425, 1, 218>>, <<428, 428, 1, 1>>, <<430, 430, 1, 218>>,
      <<431, 431, 1, 1>>, <<433, 434, 1, 217>>, <<435, 437, 2, 1>>,
      <<439, 439, 1, 219>>, <<440, 440, 1, 1>>, <<444, 444, 1, 1>>,
      <<452, 452, 1, 2>>, <<453, 453, 1, 1>>, <<455, 455, 1, 2>>,
      <<456, 456, 1, 1>>, <<458, 458, 1, 2>>, <<459, 475, 2, 1>>,
      <<478, 494, 2, 1>>, <<497, 497, 1, 2>>, <<498, 500, 2, 1>>,
      <<502, 502, 1, -97>>, <<503, 503, 1, -56>>, <<504, 542, 2, 1>>,
      <<544, 544, 1, -130>>, <<546, 562, 2, 1>>, <<570, 570, 1, 10795>>,
      <<571, 571, 1, 1>>, <<573, 573, 1, -163>>, <<574, 574, 1, 10792>>,
      <<577, 577, 1, 1>>, <<579, 579, 1, -195>>, <<580, 580, 1, 69>>,
      <<581, 581, 1, 71>>, <<582, 590, 2, 1>>, <<880, 882, 2, 1>>,
      <<886, 886, 1, 1>>, <<895, 895, 1, 116>>, <<902, 902, 1, 38>>,
      <<904, 906, 1, 37>>, <<908, 908, 1, 64>>, <<910, 911, 1, 63>>,
      <<913, 929, 1, 32>>, <<931, 939, 1, 32>>, <<975, 975, 1, 8>>,
      <<984, 1006, 2, 1>>, <<1012, 1012, 1, -60>>, <<1015, 1015, 1, 1>>,
      <<1017, 1017, 1, -7>>, <<1018, 1018, 1, 1>>, <<1021, 1023, 1, -130>>,
      <<1024, 1039, 1, 80>>, <<1040, 1071, 1, 32>>, <<1120, 1152, 2, 1>>,
      <<1162, 1214, 2, 1>>, <<1216, 1216, 1, 15>>, <<1217, 1229, 2, 1>>,
      <<1232, 1326, 2, 1>>, <<1329, 1366, 1, 48>>, <<4256, 4293, 1, 7264>>,
      <<4295, 4295, 1, 7264>>, <<4301, 4301, 1, 7264>>,
      <<5024, 5103, 1, 38864>>, <<5104, 5109, 1, 8>>, <<7312, 7354, 1, -3008>>,
      <<7357, 7359, 1, -3008>>, <<7680, 7828, 2, 1>>, <<7838, 7838, 1, -7615>>,
      <<7840, 7934, 2, 1>>, <<7944, 7951, 1, -8>>, <<7960, 7965, 1, -8>>,
      <<7976, 7983, 1, -8>>, <<7992, 7999, 1, -8>>, <<8008, 8013, 1, -8>>,
      <<8025, 8031, 2, -8>>, <<8040, 8047, 1, -8>>, <<8072, 8079, 1, -8>>,
      <<8088, 8095, 1, -8>>, <<8104, 8111, 1, -8>>, <<8120, 8121, 1, -8>>,
      <<8122, 8123, 1, -74>>, <<8124, 8124, 1, -9>>, <<8136, 8139, 1, -86>>,
      <<8140, 8140, 1, -9>>, <<8152, 8153, 1, -8>>, <<8154, 8155, 1, -100>>,
      <<8168, 8169, 1, -8>>, <<8170, 8171, 1, -112>>, <<8172, 8172, 1, -7>>,
      <<8184, 8185, 1, -128>>, <<8186, 8187, 1, -126>>, <<8188, 8188, 1, -9>>,
      <<8486, 8486, 1, -7517>>, <<8490, 8490, 1, -8383>>,
      <<8491, 8491, 1, -8262>>, <<8498, 8498, 1, 28>>, <<8544, 8559, 1, 16>>,
      <<8579, 8579, 1, 1>>, <<9398, 9423, 1, 26>>, <<11264, 11311, 1, 48>>,
      <<11360, 11360, 1, 1>>, <<11362, 11362, 1, -10743>>,
      <<11363, 11363, 1, -3814>>, <<11364, 11364, 1, -10727>>,
      <<11367, 11371, 2, 1>>, <<11373, 11373, 1, -10780>>,
      <<11374, 11374, 1, -10749>>, <<11375, 11375, 1, -10783>>,
      <<11376, 11376, 1, -10782>>, <<11378, 11378, 1, 1>>,
      <<11381, 11381, 1, 1>>, <<11390, 11391, 1, -10815>>,
      <<11392, 11490, 2, 1>>, <<11499, 11501, 2, 1>>, <<11506, 11506, 1, 1>>,
      <<42560, 42604, 2, 1>>, <<42624, 42650, 2, 1>>, <<42786, 42798, 2, 1>>,
      <<42802, 42862, 2, 1>>, <<42873, 42875, 2, 1>>,
      <<42877, 42877, 1, -35332>>, <<42878, 42886, 2, 1>>,
      <<42891, 42891, 1, 1>>, <<42893, 42893, 1, -42280>>,
      <<42896, 42898, 2, 1>>, <<42902, 42920, 2, 1>>,
      <<42922, 42922, 1, -42308>>, <<42923, 42923, 1, -42319>>,
      <<42924, 42924, 1, -42315>>, <<42925, 42925, 1, -42305>>,
      <<42926, 42926, 1, -42308>>, <<42928, 42928, 1, -42258>>,
      <<42929, 42929, 1, -42282>>, <<42930, 42930, 1, -42261>>,
      <<42931, 42931, 1, 928>>, <<42932, 42946, 2, 1>>,
      <<42948, 42948, 1, -48>>, <<42949, 42949, 1, -42307>>,
      <<42950, 42950, 1, -35384>>, <<42951, 42953, 2, 1>>,
      <<42960, 42960, 1, 1>>, <<42966, 42968, 2, 1>>, <<42997, 42997, 1, 1>>,
      <<65313, 65338, 1, 32>>, <<66560, 66599, 1, 40>>,
      <<66736, 66771, 1, 40>>, <<66928, 66964, 2, 39>>,
      <<66929, 66938, 1, 39>>, <<66941, 66954, 1, 39>>,
      <<66957, 66962, 1, 39>>, <<66965, 66965, 1, 39>>,
      <<68736, 68786, 1, 64>>, <<71840, 71871, 1, 32>>,
      <<93760, 93791, 1, 32>>, <<125184, 125217, 1, 34>>>>

\* str.lower() of one character that maps to one character.
LowerChar(c) ==
    LET hits == {k \in DOMAIN LowerTable :
                    /\ LowerTable[k][1] <= c
                    /\ c <= LowerTable[k][2]
                    /\ (c - LowerTable[k][1]) % LowerTable[k][3] = 0}
    IN  IF hits = {} THEN c ELSE c + LowerTable[CHOOSE k \in hits : TRUE][4]

\* The cased characters that are not case-ignorable, and the
\* case-ignorable characters, by their bounds.
CasedBounds ==
    <<65, 91, 97, 123, 170, 171, 181, 182, 186, 187, 192, 215, 216, 247,
      248, 443, 444, 448, 452, 660, 661, 688, 880, 884, 886, 888, 891, 894,
      895, 896, 902, 903, 904, 907, 908, 909, 910, 930, 931, 1014, 1015,
      1154, 1162, 1328, 1329, 1367, 1376, 1417, 4256, 4294, 4295, 4296,
      4301, 4302, 4304, 4347, 4349, 4352, 5024, 5110, 5112, 5118, 7296,
      7305, 7312, 7355, 7357, 7360, 7424, 7468, 7531, 7544, 7545, 7579,
      7680, 7958, 7960, 7966, 7968, 8006, 8008, 8014, 8016, 8024, 8025,
      8026, 8027, 8028, 8029, 8030, 8031, 8062, 8064, 8117, 8118, 8125,
      8126, 8127, 8130, 8133, 8134, 8141, 8144, 8148, 8150, 8156, 8160,
      8173, 8178, 8181, 8182, 8189, 8450, 8451, 8455, 8456, 8458, 8468,
      8469, 8470, 8473, 8478, 8484, 8485, 8486, 8487, 8488, 8489, 8490,
      8494, 8495, 8501, 8505, 8506, 8508, 8512, 8517, 8522, 8526, 8527,
      8544, 8576, 8579, 8581, 9398, 9450, 11264, 11388, 11390, 11493, 11499,
      11503, 11506, 11508, 11520, 11558, 11559, 11560, 11565, 11566, 42560,
      42606, 42624, 42652, 42786, 42864, 42865, 42888, 42891, 42895, 42896,
      42955, 42960, 42962, 42963, 42964, 42965, 42970, 42997, 42999, 43002,
      43003, 43824, 43867, 43872, 43881, 43888, 43968, 64256, 64263, 64275,
      64280, 65313, 65339, 65345, 65371, 66560, 66640, 66736, 66772, 66776,
      66812, 66928, 66939, 66940, 66955, 66956, 66963, 66964, 66966, 66967,
      66978, 66979, 66994, 66995, 67002, 67003, 67005, 68736, 68787, 68800,
      68851, 71840, 71904, 93760, 93824, 119808, 119893, 119894, 119965,
      119966, 119968, 119970, 119971, 119973, 119975, 119977, 119981,
      119982, 119994, 119995, 119996, 119997, 120004, 120005, 120070,
      120071, 120075, 120077, 120085, 120086, 120093, 120094, 120122,
      120123, 120127, 120128, 120133, 120134, 120135, 120138, 120145,
      120146, 120486, 120488, 120513, 120514, 120539, 120540, 120571,
      120572, 120597, 120598, 120629, 120630, 120655, 120656, 120687,
      120688, 120713, 120714, 120745, 120746, 120771, 120772, 120780,
      122624, 122634, 122635, 122655, 125184, 125252, 127280, 127306,
      127312, 127338, 127344, 127370>>

CaseIgnorableBounds ==
    <<39, 40, 46, 47, 58, 59, 94, 95, 96, 97, 168, 169, 173, 174, 175, 176,
      180, 181, 183, 185, 688, 880, 884, 886, 890, 891, 900, 902, 903, 904,
      1155, 1162, 1369, 1370, 1375, 1376, 1425, 1470, 1471, 1472, 1473,
      1475, 1476, 1478, 1479, 1480, 1524, 1525, 1536, 1542, 1552, 1563,
      1564, 1565, 1600, 1601, 1611, 1632, 1648, 1649, 1750, 1758, 1759,
      1769, 1770, 1774, 1807, 1808, 1809, 1810, 1840, 1867, 1958, 1969,
      2027, 2038, 2042, 2043, 2045, 2046, 2070, 2094, 2137, 2140, 2184,
      2185, 2192, 2194, 2200, 2208, 2249, 2307, 2362, 2363, 2364, 2365,
      2369, 2377, 2381, 2382, 2385, 2392, 2402, 2404, 2417, 2418, 2433,
      2434, 2492, 2493, 2497, 2501, 2509, 2510, 2530, 2532, 2558, 2559,
      2561, 2563, 2620, 2621, 2625, 2627, 2631, 2633, 2635, 2638, 2641,
      2642, 2672, 2674, 2677, 2678, 2689, 2691, 2748, 2749, 2753, 2758,
      2759, 2761, 2765, 2766, 2786, 2788, 2810, 2816, 2817, 2818, 2876,
      2877, 2879, 2880, 2881, 2885, 2893, 2894, 2901, 2903, 2914, 2916,
      2946, 2947, 3008, 3009, 3021, 3022, 3072, 3073, 3076, 3077, 3132,
      3133, 3134, 3137, 3142, 3145, 3146, 3150, 3157, 3159, 3170, 3172,
      3201, 3202, 3260, 3261, 3263, 3264, 3270, 3271, 3276, 3278, 3298,
      3300, 3328, 3330, 3387, 3389, 3393, 3397, 3405, 3406, 3426, 3428,
      3457, 3458, 3530, 3531, 3538, 3541, 3542, 3543, 3633, 3634, 3636,
      3643, 3654, 3663, 3761, 3762, 3764, 3773, 3782, 3783, 3784, 3790,
      3864, 3866, 3893, 3894, 3895, 3896, 3897, 3898, 3953, 3967, 3968,
      3973, 3974, 3976, 3981, 3992, 3993, 4029, 4038, 4039, 4141, 4145,
      4146, 4152, 4153, 4155, 4157, 4159, 4184, 4186, 4190, 4193, 4209,
      4213, 4226, 4227, 4229, 4231, 4237, 4238, 4253, 4254, 4348, 4349,
      4957, 4960, 5906, 5909, 5938, 5940, 5970, 5972, 6002, 6004, 6068,
      6070, 6071, 6078, 6086, 6087, 6089, 6100, 6103, 6104, 6109, 6110,
      6155, 6160, 6211, 6212, 6277, 6279, 6313, 6314, 6432, 6435, 6439,
      6441, 6450, 6451, 6457, 6460, 6679, 6681, 6683, 6684, 6742, 6743,
      6744, 6751, 6752, 6753, 6754, 6755, 6757, 6765, 6771, 6781, 6783,
      6784, 6823, 6824, 6832, 6863, 6912, 6916, 6964, 6965, 6966, 6971,
      6972, 6973, 6978, 6979, 7019, 7028, 7040, 7042, 7074, 7078, 7080,
      7082, 7083, 7086, 7142, 7143, 7144, 7146, 7149, 7150, 7151, 7154,
      7212, 7220, 7222, 7224, 7288, 7294, 7376, 7379, 7380, 7393, 7394,
      7401, 7405, 7406, 7412, 7413, 7416, 7418, 7468, 7531, 7544, 7545,
      7579, 7680, 8125, 8126, 8127, 8130, 8141, 8144, 8157, 8160, 8173,
      8176, 8189, 8191, 8203, 8208, 8216, 8218, 8228, 8229, 8231, 8232,
      8234, 8239, 8288, 8293, 8294, 8304, 8305, 8306, 8319, 8320, 8336,
      8349, 8400, 8433, 11388, 11390, 11503, 11506, 11631, 11632, 11647,
      11648, 11744, 11776, 11823, 11824, 12293, 12294, 12330, 12334, 12337,
      12342, 12347, 12348, 12441, 12447, 12540, 12543, 40981, 40982, 42232,
      42238, 42508, 42509, 42607, 42611, 42612, 42622, 42623, 42624, 42652,
      42656, 42736, 42738, 42752, 42786, 42864, 42865, 42888, 42891, 42994,
      42997, 43000, 43002, 43010, 43011, 43014, 43015, 43019, 43020, 43045,
      43047, 43052, 43053, 43204, 43206, 43232, 43250, 43263, 43264, 43302,
      43310, 43335, 43346, 43392, 43395, 43443, 43444, 43446, 43450, 43452,
      43454, 43471, 43472, 43493, 43495, 43561, 43567, 43569, 43571, 43573,
      43575, 43587, 43588, 43596, 43597, 43632, 43633, 43644, 43645, 43696,
      43697, 43698, 43701, 43703, 43705, 43710, 43712, 43713, 43714, 43741,
      43742, 43756, 43758, 43763, 43765, 43766, 43767, 43867, 43872, 43881,
      43884, 44005, 44006, 44008, 44009, 44013, 44014, 64286, 64287, 64434,
      64451, 65024, 65040, 65043, 65044, 65056, 65072, 65106, 65107, 65109,
      65110, 65279, 65280, 65287, 65288, 65294, 65295, 65306, 65307, 65342,
      65343, 65344, 65345, 65392, 65393, 65438, 65440, 65507, 65508, 65529,
      65532, 66045, 66046, 66272, 66273, 66422, 66427, 67456, 67462, 67463,
      67505, 67506, 67515, 68097, 68100, 68101, 68103, 68108, 68112, 68152,
      68155, 68159, 68160, 68325, 68327, 68900, 68904, 69291, 69293, 69446,
      69457, 69506, 69510, 69633, 69634, 69688, 69703, 69744, 69745, 69747,
      69749, 69759, 69762, 69811, 69815, 69817, 69819, 69821, 69822, 69826,
      69827, 69837, 69838, 69888, 69891, 69927, 69932, 69933, 69941, 70003,
      70004, 70016, 70018, 70070, 70079, 70089, 70093, 70095, 70096, 70191,
      70194, 70196, 70197, 70198, 70200, 70206, 70207, 70367, 70368, 70371,
      70379, 70400, 70402, 70459, 70461, 70464, 70465, 70502, 70509, 70512,
      70517, 70712, 70720, 70722, 70725, 70726, 70727, 70750, 70751, 70835,
      70841, 70842, 70843, 70847, 70849, 70850, 70852, 71090, 71094, 71100,
      71102, 71103, 71105, 71132, 71134, 71219, 71227, 71229, 71230, 71231,
      71233, 71339, 71340, 71341, 71342, 71344, 71350, 71351, 71352, 71453,
      71456, 71458, 71462, 71463, 71468, 71727, 71736, 71737, 71739, 71995,
      71997, 71998, 71999, 72003, 72004, 72148, 72152, 72154, 72156, 72160,
      72161, 72193, 72203, 72243, 72249, 72251, 72255, 72263, 72264, 72273,
      72279, 72281, 72284, 72330, 72343, 72344, 72346, 72752, 72759, 72760,
      72766, 72767, 72768, 72850, 72872, 72874, 72881, 72882, 72884, 72885,
      72887, 73009, 73015, 73018, 73019, 73020, 73022, 73023, 73030, 73031,
      73032, 73104, 73106, 73109, 73110, 73111, 73112, 73459, 73461, 78896,
      78905, 92912, 92917, 92976, 92983, 92992, 92996, 94031, 94032, 94095,
      94112, 94176, 94178, 94179, 94181, 110576, 110580, 110581, 110588,
      110589, 110591, 113821, 113823, 113824, 113828, 118528, 118574,
      118576, 118599, 119143, 119146, 119155, 119171, 119173, 119180,
      119210, 119214, 119362, 119365, 121344, 121399, 121403, 121453,
      121461, 121462, 121476, 121477, 121499, 121504, 121505, 121520,
      122880, 122887, 122888, 122905, 122907, 122914, 122915, 122917,
      122918, 122923, 123184, 123198, 123566, 123567, 123628, 123632,
      125136, 125143, 125252, 125260, 127995, 128000, 917505, 917506,
      917536, 917632, 917760, 918000>>

\* The capital sigma at position i is final when the nearest character
\* before it that is not case-ignorable is cased, and the nearest such
\* character after it, if any, is not.
FinalSigma(t, i) ==
    LET before == {j \in 1..(i - 1) : ~InBounds(t[j], CaseIgnorableBounds)}
        after == {j \in (i + 1)..Len(t) : ~InBounds(t[j], CaseIgnorableBounds)}
    IN  /\ before # {}
        /\ InBounds(t[CHOOSE j \in before : \A k \in before : k <= j], CasedBounds)
        /\ \/ after = {}
           \/ ~InBounds(t[CHOOSE j \in after : \A k \in after : j <= k], CasedBounds)

\* str.lower(): character by character, but for the capital sigma (931),
\* which becomes the final small sigma (962) or the small sigma (963),
\* and the capital I with dot (304), which becomes two characters.
RECURSIVE LowerUpTo(_, _)
LowerUpTo(t, n) ==
    IF n = 0 THEN <<>>
    ELSE LowerUpTo(t, n - 1) \o
         (IF t[n] = 931 THEN <<IF FinalSigma(t, n) THEN 962 ELSE 963>>
          ELSE IF t[n] = 304 THEN <<105, 775>>
          ELSE <<LowerChar(t[n])>>)

ToLower(t) == LowerUpTo(t, Len(t))

\* needle in hay
Contains(hay, needle) ==
    \E i \in 0..(Len(hay) - Len(needle)) :
        SubSeq(hay, i + 1, i + Len(needle)) = needle

\* The last index of the run of characters of `class` that starts at i
\* (i - 1 when t[i] is not of the class).
RunEnd(t, i, class) ==
    CHOOSE e \in (i - 1)..Len(t) :
        /\ \A j \in i..e : t[j] \in class
        /\ e < Len(t) => t[e + 1] \notin class

----------------------------------------------------------------------------
(* The query builder (scraper.py extract_core_title, extract_model,       *)
(* build_search_query)                                                     *)

\* re.split(r'[\(\|\-,]', product_name)[0].strip()
ExtractCoreTitle(name) ==
    LET cuts == {i \in DOMAIN name : name[i] \in Range(Code(<<"(", "|", "-", ",">>))}
    IN  IF cuts = {} THEN Strip(name)
        ELSE Strip(SubSeq(name, 1, (CHOOSE i \in cuts : \A j \in cuts : i <= j) - 1))

\* re.search(r'\b([A-Z0-9]{5,})\b', product_name) matches at i when a
\* word starts at i, the run of [A-Z0-9] from i has five characters or
\* more, and the word ends where the run ends. A shorter part of the run
\* cannot match: it would end inside the word.
ModelMatchAt(name, i) ==
    LET e == RunEnd(name, i, ModelChars)
    IN  /\ (i = 1 \/ ~IsWord(name[i - 1]))
        /\ e - i + 1 >= 5
        /\ (e = Len(name) \/ ~IsWord(name[e + 1]))

\* The first match, or the empty text for None.
ExtractModel(name) ==
    LET starts == {i \in DOMAIN name : ModelMatchAt(name, i)}
    IN  IF starts = {} THEN <<>>
        ELSE LET i == CHOOSE x \in starts : \A y \in starts : x <= y
             IN  SubSeq(name, i, RunEnd(name, i, ModelChars))

BuildSearchQuery(name, brand) ==
    LET model == ExtractModel(name)
        core_title == ExtractCoreTitle(name)
    IN  IF model # <<>> THEN Strip(brand \o <<32>> \o model)
        ELSE IF Contains(ToLower(core_title), ToLower(brand)) THEN Strip(core_title)
        ELSE Strip(brand \o <<32>> \o core_title)

NameWidgetX123Y ==
    Code(<<"W", "i", "d", "g", "e", "t", " ", "P", "r", "o", " ", "X", "1", "2",
      "3", "-", "Y", " ", "(", "B", "l", "a", "c", "k", ")">>)

\* The names the locators of a page give, one per locator; the last one is
\* padded with a newline and a tab.
NameTexts ==
    << Code(<<"A", "c", "m", "e", " ", "W", "i", "d", "g", "e", "t", " ", "P", "r",
         "o">>),
       Code(<<"G", "a", "l", "a", "x", "y", " ", "S", "M", "1", "2", "3", "X", " ",
         "(", "B", "l", "u", "e", ")">>),
       Code(<<"P", "h", "o", "n", "e", " ", "X", "1", "2", "3", "4", "a", ",", " ",
         "6", "4", "G", "B">>),
       <<5760, 10>> \o Code(<<"T", "V", "|", "5", "5">>) \o <<9>> >>

ProductNames ==
    {NameWidgetX123Y,
     <<201>> \o Code(<<"c", "o", "l", "e", " ">>) \o <<233>>
         \o Code(<<"A", "B", "C", "D", "E", " ", "K", "i", "t">>),
     Code(<<"A", "B", "C", "D", "E">>) \o <<937>>,
     <<963>> \o Code(<<"i", "g", "m", "a", " ", "P", "h", "o", "n", "e">>)}
        \cup {NameTexts[i] : i \in 1..Len(NameTexts)}

BrandAcme ==
    Code(<<"A", "c", "m", "e">>)

Brands ==
    {BrandAcme, Code(<<"a", "c", "m", "e">>), <<931>> \o Code(<<"I", "G", "M", "A">>),
     <<>>}

----------------------------------------------------------------------------
(* The price normalizer (scraper.py ProductScraper._extract_price) *)

\* str.replace(sub, ''): every occurrence, from the left.
RECURSIVE RemoveAll(_, _)
RemoveAll(t, sub) ==
    IF Len(t) < Len(sub) THEN t
    ELSE IF SubSeq(t, 1, Len(sub)) = sub
    THEN RemoveAll(SubSeq(t, Len(sub) + 1, Len(t)), sub)
    ELSE <<t[1]>> \o RemoveAll(SubSeq(t, 2, Len(t)), sub)

DigitVal(c) == c - CHOOSE z \in Range(DecimalZeros) : z <= c /\ c <= z + 9

RECURSIVE Num(_)
Num(ds) ==
    IF ds = <<>> THEN 0
    ELSE 10 * Num(SubSeq(ds, 1, Len(ds) - 1)) + DigitVal(ds[Len(ds)])

RECURSIVE Pow10(_)
Pow10(k) == IF k = 0 THEN 1 ELSE 10 * Pow10(k - 1)

\* A natural number as its binary digits, most significant first.
RECURSIVE Bits(_)
Bits(n) == IF n = 0 THEN <<>> ELSE Append(Bits(n \div 2), n % 2)

RECURSIVE BitsValue(_)
BitsValue(b) ==
    IF b = <<>> THEN 0
    ELSE 2 * BitsValue(SubSeq(b, 1, Len(b) - 1)) + b[Len(b)]

RECURSIVE Pow2(_)
Pow2(k) == IF k = 0 THEN 1 ELSE 2 * Pow2(k - 1)

\* The last w binary digits of v.
Pad(v, w) == [i \in 1..w |-> (v \div Pow2(w - i)) % 2]

\* Rounding to the 53 digits of a binary64 significand, ties to even: b has
\* more than 53 digits and starts with 1; `below` tells that the exact
\* value has something beyond b's last digit, and `shift` is the number of
\* digits of b after the point. The result is the significand m and the
\* exponent e: the value is m * 2^e.
Round53(b, below, shift) ==
    LET top == SubSeq(b, 1, 53)
        rest == below \/ \E i \in 55..Len(b) : b[i] = 1
        roundUp == b[54] = 1 /\ (rest \/ top[53] = 1)
        zeros == {i \in 1..53 : top[i] = 0}
    IN  IF ~roundUp THEN [m |-> top, e |-> Len(b) - 53 - shift]
        ELSE IF zeros = {}
        THEN [m |-> [i \in 1..53 |-> IF i = 1 THEN 1 ELSE 0],
              e |-> Len(b) - 52 - shift]
        ELSE LET j == CHOOSE i \in zeros : \A k \in zeros : k <= i
             IN  [m |-> [i \in 1..53 |->
                            IF i < j THEN top[i] ELSE IF i = j THEN 1 ELSE 0],
                  e |-> Len(b) - 53 - shift]

\* The binary64 product of x (significand x.m, exponent x.e) and the whole
\* number c < 128: the exact product, computed in three parts of 18 digits
\* or less so that no part exceeds a machine word, and rounded.
TimesSmall(x, c) ==
    LET lo == BitsValue(SubSeq(x.m, 36, 53)) * c
        mid == BitsValue(SubSeq(x.m, 18, 35)) * c + lo \div Pow2(18)
        hi == BitsValue(SubSeq(x.m, 1, 17)) * c + mid \div Pow2(18)
    IN  Round53(Bits(hi) \o Pad(mid % Pow2(18), 18) \o Pad(lo % Pow2(18), 18),
                FALSE, 0 - x.e)

\* Long division of n by d (n > 0), carried on for `steps` groups of w
\* binary digits after the point (d * 2^w fits a machine word): the digits
\* of the quotient from its first 1 on, and whether a remainder is left.
LongDiv(n, d, w, steps) ==
    LET rem[j \in 0..steps] ==
            IF j = 0 THEN n % d ELSE (rem[j - 1] * Pow2(w)) % d
        group(j) == (rem[j - 1] * Pow2(w)) \div d
        digits == Bits(n \div d) \o
                  [i \in 1..(steps * w) |->
                      (group((i - 1) \div w + 1) \div Pow2(w - 1 - ((i - 1) % w))) % 2]
        lead == CHOOSE i \in DOMAIN digits :
                    digits[i] = 1 /\ \A j \in 1..(i - 1) : digits[j] = 0
    IN  [q |-> SubSeq(digits, lead, Len(digits)), inexact |-> rem[steps] # 0]

\* float(price_str) for the decimal with digits n and k of them after the
\* point (n > 0, k <= 8): the binary64 nearest to n / 10^k. The division
\* is carried far enough for the quotient to have more than 53 digits from
\* its first 1 on.
Binary64(n, k) ==
    LET d == Pow10(k)
        w == 30 - Len(Bits(d))
        steps == (53 + Len(Bits(d))) \div w + 1
        div == LongDiv(n, d, w, steps)
    IN  Round53(div.q, div.inexact, steps * w)

\* int(y) for a binary64 y >= 0 below 2^53: the digits before the point.
IntPart(y) ==
    IF 53 + y.e <= 0 THEN 0 ELSE BitsValue(SubSeq(y.m, 1, 53 + y.e))

\* int(price_float * 100): the binary64 product, truncated. A decimal
\* without fraction digits is a whole number that binary64 holds exactly,
\* and so is its product with 100 (amounts below 2^31 paise).
PaiseTruncated(n, k) ==
    IF n = 0 \/ k = 0 THEN n * 100
    ELSE IntPart(TimesSmall(Binary64(n, k), 100))

\* _extract_price: the three characters that a mis-decoded rupee sign
\* leaves (226, 8218, 185) and the commas are removed and the text is
\* stripped; the first match of r'[\d,]+\.?\d*' is then the first run of
\* decimal digits, a point if one follows, and the digits after it, which
\* float() reads whatever their script; ValueError when the text has no
\* digit.
ExtractPrice(price_text) ==
    LET t == Strip(RemoveAll(RemoveAll(price_text, <<226, 8218, 185>>),
                             Code(<<",">>)))
        first == {i \in DOMAIN t : t[i] \in DecimalDigits}
    IN  IF first = {} THEN [raised |-> TRUE, value |-> 0]
        ELSE LET i == CHOOSE x \in first : \A y \in first : x <= y
                 e == RunEnd(t, i, DecimalDigits)
                 dot == e < Len(t) /\ t[e + 1] = 46
                 f == IF dot THEN RunEnd(t, e + 2, DecimalDigits) ELSE e
                 frac == IF dot THEN SubSeq(t, e + 2, f) ELSE <<>>
             IN  [raised |-> FALSE,
                  value |-> PaiseTruncated(Num(SubSeq(t, i, e) \o frac), Len(frac))]

\* Price texts, each with the amount it shows (units / scale; units is -1
\* for a text that shows no amount).
PriceTexts == {
    [text |->
          Code(<<"R", "s", ".", " ", "1", ",", "2", "9", "9", ".", "5", "0">>),
     units |-> 129950, scale |-> 100],
    [text |->
          Code(<<"1", "9", ".", "9", "9", "9">>),
     units |-> 19999, scale |-> 1000],
    [text |->
          Code(<<"1", "9", ".", "9", "9">>),
     units |-> 1999, scale |-> 100],
    [text |->
          Code(<<"8", "5", "0", "0">>),
     units |-> 8500, scale |-> 1],
    [text |->
          Code(<<"P", "r", "i", "c", "e", " ", "u", "n", "a", "v", "a", "i",
            "l", "a", "b", "l", "e">>),
     units |-> -1, scale |-> 1],
    [text |->
          Code(<<"1", ".", "1", "5">>),
     units |-> 115, scale |-> 100],
    [text |->
          Code(<<"8", "5", ".", "0", "0">>),
     units |-> 8500, scale |-> 100],
    [text |->
          <<>>,
     units |-> -1, scale |-> 1],
    [text |->
          Code(<<"1", ",", "2", "9", "9", ".">>),
     units |-> 1299, scale |-> 1],
    [text |->
          Code(<<"1", "9", ".", "9", "9", "1">>),
     units |-> 19991, scale |-> 1000],
    [text |->
          Code(<<"0", ".", "2", "9">>),
     units |-> 29, scale |-> 100],
    [text |->
          Code(<<"2", ".", "3">>),
     units |-> 23, scale |-> 10],
    [text |->
          <<8377, 2535>> \o Code(<<",">>) \o <<2536, 2543, 2543>>,
     units |-> 1299, scale |-> 1],
    [text |->
          <<226, 8218, 185, 2791>> \o Code(<<".">>) \o <<2792, 2795>>,
     units |-> 125, scale |-> 100] }

----------------------------------------------------------------------------
(* The platform extractors (scraper.py ProductScraper._scrape_amazon,      *)
(* _scrape_flipkart)                                                       *)

\* What one locator gives on a page: None or "", an exception, or text.
NoText == [kind |-> "none", text |-> <<>>]
Raises == [kind |-> "raise", text |-> <<>>]
Text(t) == [kind |-> "text", text |-> t]

\* `if value:` holds for the locator's result.
Yields(o) == o.kind = "text" /\ o.text # <<>>

\* The first locator, in declared order, whose result is non-empty (0: none).
FirstYield(outs) ==
    IF \E i \in DOMAIN outs : Yields(outs[i])
    THEN CHOOSE i \in DOMAIN outs :
             Yields(outs[i]) /\ \A j \in 1..(i - 1) : ~Yields(outs[j])
    ELSE 0

\* The name and image loops: try the locator, `break` on a non-empty
\* result, `except: continue`. The empty text stands for None and "".
LocateText(outs) ==
    IF FirstYield(outs) = 0 THEN <<>> ELSE outs[FirstYield(outs)].text

\* The price loop: _extract_price is called inside the try, so a text it
\* cannot parse is skipped like a locator that raised. prices[i] is what
\* _extract_price makes of the text of locator i.
FirstPrice(outs, prices) ==
    IF \E i \in DOMAIN outs : Yields(outs[i]) /\ ~prices[i].raised
    THEN [found |-> TRUE,
          value |-> prices[CHOOSE i \in DOMAIN outs :
                              /\ Yields(outs[i])
                              /\ ~prices[i].raised
                              /\ \A j \in 1..(i - 1) :
                                     ~Yields(outs[j]) \/ prices[j].raised].value]
    ELSE [found |-> FALSE, value |-> 0]

LocatePrice(outs) ==
    FirstPrice(outs, [i \in DOMAIN outs |-> ExtractPrice(outs[i].text)])

ScrapeFailed(what) ==
    [raised |-> TRUE, error |-> what, name |-> <<>>, price |-> 0,
     image_url |-> <<>>, platform |-> "", brand |-> <<>>, model |-> <<>>]

\* `if not price`: no price was set, or the price is 0.
PriceMissing(price) == ~price.found \/ price.value = 0

\* The record of _scrape_flipkart and of _scrape_meesho, which is the same
\* code over Meesho's locators, from what the locators gave: ValueError
\* "Could not find product name" / "... price".
ListingRecord(platform, name, price, image_url) ==
    IF name = <<>> THEN ScrapeFailed("name")
    ELSE IF PriceMissing(price) THEN ScrapeFailed("price")
    ELSE [raised |-> FALSE, error |-> "", name |-> Strip(name),
          price |-> price.value, image_url |-> image_url,
          platform |-> platform, brand |-> <<>>, model |-> <<>>]

ScrapeFlipkart(page) ==
    ListingRecord("Flipkart", LocateText(page.name), LocatePrice(page.price),
                  LocateText(page.image))

ScrapeMeesho(page) ==
    ListingRecord("Meesho", LocateText(page.name), LocatePrice(page.price),
                  LocateText(page.image))

\* The record of _scrape_amazon: the name has one locator, read outside any
\* try, so its exception is the extractor's; the brand is read in a try of
\* its own.
AmazonRecord(page, price) ==
    IF page.name[1].kind = "raise" THEN ScrapeFailed("locator")
    ELSE IF ~Yields(page.name[1]) THEN ScrapeFailed("name")
    ELSE IF PriceMissing(price) THEN ScrapeFailed("price")
    ELSE [raised |-> FALSE, error |-> "", name |-> Strip(page.name[1].text),
          price |-> price.value, image_url |-> LocateText(page.image),
          platform |-> "Amazon",
          brand |-> IF Yields(page.brand[1])
                    THEN Strip(RemoveAll(
                             RemoveAll(page.brand[1].text,
                                       Code(<<"V", "i", "s", "i", "t", " ", "t",
                                         "h", "e">>)),
                             Code(<<"S", "t", "o", "r", "e">>)))
                    ELSE <<>>,
          model |-> ExtractModel(Strip(page.name[1].text))]

ScrapeAmazon(page) == AmazonRecord(page, LocatePrice(page.price))

\* SELECTORS: the number of locators declared per platform and field.
Selectors ==
    [amazon |-> [name |-> 1, price |-> 4, image |-> 2, brand |-> 1],
     flipkart |-> [name |-> 4, price |-> 3, image |-> 3, brand |-> 0],
     meesho |-> [name |-> 3, price |-> 3, image |-> 3, brand |-> 0]]

\* Pages: per locator, what it gives. The text a locator gives differs
\* from locator to locator, so that the result shows which one was used.
PriceTextsOk ==
    << Code(<<"8", "5", "0", "0">>), Code(<<"8", "5", ".", "0", "0">>),
       <<8377, 2535>> \o Code(<<",">>) \o <<2536, 2543, 2543>>,
       Code(<<"R", "s", ".", " ", "1", ",", "2", "9", "9", ".", "5", "0">>) >>

Outcome(field, i, k) ==
    CASE k = "none" -> NoText
      [] k = "raise" -> Raises
      [] k = "unparsable" ->
            Text(Code(<<"P", "r", "i", "c", "e", " ", "u", "n", "a", "v", "a", "i",
                   "l", "a", "b", "l", "e">>))
      [] k = "zero" -> Text(Code(<<"0">>))
      [] k = "text" /\ field = "name" -> Text(NameTexts[i])
      [] k = "text" /\ field = "price" -> Text(PriceTextsOk[i])
      [] k = "text" /\ field = "image" ->
            Text(Code(<<"i", "m", "g">>) \o <<48 + i>>)
      [] OTHER ->
            Text(Code(<<"V", "i", "s", "i", "t", " ", "t", "h", "e">>) \o <<5760>>
                     \o Code(<<"A", "c", "m", "e", " ", "S", "t", "o", "r", "e">>))

Kinds(field) ==
    CASE field = "price" -> {"none", "raise", "text", "unparsable", "zero"}
      [] field = "name" -> {"none", "raise", "text"}
      [] OTHER -> {"none", "text"}

\* A field whose locators all give the same: nothing, or their text.
Uniform(n) == {[i \in 1..n |-> k] : k \in {"none", "text"}}

\* The pages of a platform, as the choices of a kind per locator: one field
\* takes every combination of kinds while the other fields are uniform.
PageKinds(platform) ==
    LET n == Selectors[platform]
    IN  [name : [1..n.name -> Kinds("name")], price : Uniform(n.price),
         image : Uniform(n.image), brand : Uniform(n.brand)]
        \cup [name : Uniform(n.name), price : [1..n.price -> Kinds("price")],
              image : Uniform(n.image), brand : Uniform(n.brand)]
        \cup [name : Uniform(n.name), price : Uniform(n.price),
              image : [1..n.image -> Kinds("image")],
              brand : [1..n.brand -> Kinds("brand")]]

Page(ks) ==
    [name |-> [i \in DOMAIN ks.name |-> Outcome("name", i, ks.name[i])],
     price |-> [i \in DOMAIN ks.price |-> Outcome("price", i, ks.price[i])],
     image |-> [i \in DOMAIN ks.image |-> Outcome("image", i, ks.image[i])],
     brand |-> [i \in DOMAIN ks.brand |-> Outcome("brand", i, ks.brand[i])]]

----------------------------------------------------------------------------
(* scrape_product (scraper.py ProductScraper.scrape_product)                *)

AmazonIn ==
    Code(<<"a", "m", "a", "z", "o", "n", ".", "i", "n">>)

FlipkartCom ==
    Code(<<"f", "l", "i", "p", "k", "a", "r", "t", ".", "c", "o", "m">>)

MeeshoCom ==
    Code(<<"m", "e", "e", "s", "h", "o", ".", "c", "o", "m">>)

\* One URL per supported site and one of no supported site.
ScrapeUrls ==
    {AmazonIn \o Code(<<"/", "d", "p", "/", "1">>),
     FlipkartCom \o Code(<<"/", "p", "/", "1">>),
     MeeshoCom \o Code(<<"/", "p", "/", "1">>),
     Code(<<"s", "h", "o", "p", ".", "e", "x", "a", "m", "p", "l", "e", "/", "1">>)}

\* The locators of the site a URL belongs to ("" for any other site).
SiteOf(url) ==
    CASE Contains(url, AmazonIn) -> "amazon"
      [] Contains(url, FlipkartCom) -> "flipkart"
      [] Contains(url, MeeshoCom) -> "meesho"
      [] OTHER -> ""

\* The if/elif chain on the URL.
Extract(url, page) ==
    CASE Contains(url, AmazonIn) -> ScrapeAmazon(page)
      [] Contains(url, FlipkartCom) -> ScrapeFlipkart(page)
      [] Contains(url, MeeshoCom) -> ScrapeMeesho(page)
      [] OTHER -> ScrapeFailed("unsupported")

\* What can go wrong around the extraction: nothing; browser.new_page
\* raises; page.goto raises; page.screenshot raises in the except branch.
ScrapeFaults == {"none", "new_page", "goto", "snapshot"}

\* The try block: navigation, then the wait for '#productTitle' (whatever
\* the site; `title` tells whether the page has such an element, and the
\* wait raises TimeoutError when it has not), then the extractor.
ScrapeBody(url, page, title, fault) ==
    IF fault = "goto" THEN ScrapeFailed("goto")
    ELSE IF ~title THEN ScrapeFailed("timeout")
    ELSE Extract(url, page)

\* Variant: the page is closed at the end of the try block only.
PagesClosedOnSuccess(raised) == IF raised THEN 0 ELSE 1

\* `finally: await page.close()`: the page is closed whether or not the try
\* block raised, and whether or not the except branch did.
PagesClosed(raised) == 1

\* The except branch (snapshot, log, re-raise; the snapshot's own exception
\* when it raises) and the finally clause, after the try block.
ScrapeOutcome(body, fault) ==
    [result |-> IF body.raised /\ fault = "snapshot"
                THEN ScrapeFailed("snapshot") ELSE body,
     opened |-> 1, closed |-> PagesClosed(body.raised)]

\* scrape_product: the extractor's record or the exception, with the
\* numbers of pages it opened and closed.
ScrapeProduct(url, page, title, fault) ==
    IF fault = "new_page"
    THEN [result |-> ScrapeFailed("new_page"), opened |-> 0, closed |-> 0]
    ELSE ScrapeOutcome(ScrapeBody(url, page, title, fault), fault)

\* The locators that a page is described by: those of the URL's site.
LocatorsOf(url) == IF SiteOf(url) = "" THEN "amazon" ELSE SiteOf(url)

\* The pages that scrape_product is called on: every field uniform.
UniformKinds(platform) ==
    [name : Uniform(Selectors[platform].name),
     price : Uniform(Selectors[platform].price),
     image : Uniform(Selectors[platform].image),
     brand : Uniform(Selectors[platform].brand)]

----------------------------------------------------------------------------
(* One platform's search (scraper.py ProductScraper._search_flipkart_search, *)
(* _search_meesho_search) and search_cross_platform around them              *)

\* What can go wrong in one platform's search: nothing; the navigation or
\* the listing raises and the snapshot is taken; the same, and the
\* snapshot raises too; the page cannot be opened.
SearchFaults == {"none", "navigation", "snapshot", "new_page"}

\* The search of one platform: its candidates, [] from its except branch,
\* or the exception of `page.screenshot` (raised inside the except branch)
\* or of `browser.new_page` (called before the try); with the numbers of
\* pages it opened and closed (`finally: await page.close()`, as in
\* scrape_product).
PlatformSearch(o) ==
    CASE o.fault = "none" ->
             [raised |-> FALSE, results |-> o.cands,
              opened |-> 1, closed |-> PagesClosed(FALSE)]
      [] o.fault = "navigation" ->
             [raised |-> FALSE, results |-> <<>>,
              opened |-> 1, closed |-> PagesClosed(TRUE)]
      [] o.fault = "snapshot" ->
             [raised |-> TRUE, results |-> <<>>,
              opened |-> 1, closed |-> PagesClosed(TRUE)]
      [] OTHER -> [raised |-> TRUE, results |-> <<>>, opened |-> 0, closed |-> 0]

\* search_cross_platform awaits Flipkart's search, then Meesho's, with no
\* try of its own, then matches. After an exception of Flipkart's search
\* Meesho's is not started.
SearchCrossPlatformCall(fo, mo) ==
    IF PlatformSearch(fo).raised
    THEN [raised |-> TRUE, results |-> <<>>,
          opened |-> PlatformSearch(fo).opened,
          closed |-> PlatformSearch(fo).closed]
    ELSE [raised |-> PlatformSearch(mo).raised,
          results |-> IF PlatformSearch(mo).raised THEN <<>>
                      ELSE SearchCrossPlatform(PlatformSearch(fo).results,
                                               PlatformSearch(mo).results),
          opened |-> PlatformSearch(fo).opened + PlatformSearch(mo).opened,
          closed |-> PlatformSearch(fo).closed + PlatformSearch(mo).closed]

SearchOutcomes(platform) ==
    [fault : SearchFaults, cands : SeqsUpTo(Cands(platform), 1)]

----------------------------------------------------------------------------
(* The browser of one run (scraper.py ProductScraper.__aenter__, __aexit__, *)
(* around the scrape of update_product_price and track_product and around  *)
(* the search of update_cross_platform_comparison)                         *)

\* Variant: the browser is closed when the block ends without an exception.
BrowsersClosedOnSuccess(raised) == IF raised THEN 0 ELSE 1

\* __aexit__ runs however the block ended, and closes the browser.
BrowsersClosed(raised) == 1

\* `async with ProductScraper(playwright) as scraper:` around an operation
\* that opened and closed `pages`: chromium.launch may raise (no browser,
\* the block is not entered), else the block runs and __aexit__ follows.
WithScraper(launches, raised, pages) ==
    IF ~launches
    THEN [raised |-> TRUE, browsers |-> [opened |-> 0, closed |-> 0],
          pages |-> [opened |-> 0, closed |-> 0]]
    ELSE [raised |-> raised,
          browsers |-> [opened |-> 1, closed |-> BrowsersClosed(raised)],
          pages |-> pages]

----------------------------------------------------------------------------
(* Calls of the helper functions, on arguments of their own *)

HelperFrame ==
    /\ UNCHANGED <<phase, now, ticks, jobs, attempts>>
    /\ UNCHANGED taskVars
    /\ UNCHANGED dbVars
    /\ UNCHANGED schedCallVars

AllCands == Cands("Flipkart") \cup Cands("Meesho")

\* One call in a behaviour: the functions keep no state between calls.
CallFuzzyBestMatch(cands) ==
    /\ call = NoCall
    /\ call' = [fn |-> "fuzzy_best_match", args |-> cands,
                ret |-> FuzzyBestMatch(cands, MatchThreshold)]
    /\ HelperFrame

CallBuildSearchQuery(name, brand) ==
    /\ call = NoCall
    /\ call' = [fn |-> "build_search_query", args |-> <<name, brand>>,
                ret |-> BuildSearchQuery(name, brand)]
    /\ HelperFrame

CallExtractPrice(input) ==
    /\ call = NoCall
    /\ call' = [fn |-> "_extract_price", args |-> input,
                ret |-> ExtractPrice(input.text)]
    /\ HelperFrame

CallScrapeAmazon(page) ==
    /\ call = NoCall
    /\ call' = [fn |-> "_scrape_amazon", args |-> page, ret |-> ScrapeAmazon(page)]
    /\ HelperFrame

CallScrapeFlipkart(page) ==
    /\ call = NoCall
    /\ call' = [fn |-> "_scrape_flipkart", args |-> page,
                ret |-> ScrapeFlipkart(page)]
    /\ HelperFrame

\* A page of Amazon without a '#productTitle' element gives no name.
CallScrapeProduct(url, page, title, fault) ==
    /\ call = NoCall
    /\ (SiteOf(url) = "amazon" /\ ~title) => ~Yields(page.name[1])
    /\ call' = [fn |-> "scrape_product",
                args |-> [url |-> url, page |-> page, title |-> title,
                          fault |-> fault],
                ret |-> ScrapeProduct(url, page, title, fault)]
    /\ HelperFrame

\* The scrape of a run, in the run's browser.
CallRunScrape(launches, scraped) ==
    /\ call = NoCall
    /\ call' = [fn |-> "run_scrape", args |-> <<launches, scraped>>,
                ret |-> WithScraper(launches, scraped.result.raised,
                                    [opened |-> scraped.opened,
                                     closed |-> scraped.closed])]
    /\ HelperFrame

\* The search of a run, in the run's browser.
CallRunSearch(launches, searched) ==
    /\ call = NoCall
    /\ call' = [fn |-> "run_search", args |-> <<launches, searched>>,
                ret |-> WithScraper(launches, searched.raised,
                                    [opened |-> searched.opened,
                                     closed |-> searched.closed])]
    /\ HelperFrame

CallSearchCrossPlatform(fo, mo) ==
    /\ call = NoCall
    /\ call' = [fn |-> "search_cross_platform", args |-> <<fo, mo>>,
                ret |-> SearchCrossPlatformCall(fo, mo)]
    /\ HelperFrame

----------------------------------------------------------------------------
(* Specifications *)

\* The service as it is built: users, tracking, alerts, the firing of the
\* products' jobs, the manual rescan, the sweep and the service lifecycle.
Next ==
    \/ \E d \in ClockSteps : Tick(d)
    \/ ShutdownEvent
    \/ ShutdownResume
    \/ StartupEvent
    \/ StartupResume
    \/ RegisterUser("u1")
    \/ DeleteUserAccount("u1")
    \/ \E url \in Urls : TrackStart("u1", url)
    \/ \E r \in RunIds, res \in ScrapeResults : TrackResume(r, res)
    \/ \E p \in ProductIds : DeleteProduct("u1", p)
    \/ \E p \in ProductIds, t \in Targets : CreateAlert("u1", p, t)
    \/ \E a \in AlertIds : DeleteAlert("u1", a)
    \/ \E p \in ProductIds, kind \in {"scrape_price", "compare_price"} :
          FireJobNoLoop(kind, p)
    \/ \E p \in ProductIds : ManualRescan("u1", p)
    \/ \E r \in RunIds : ManualTask(r)
    \/ \E dbok \in BOOLEAN : RetentionSweep(dbok)

Spec == Init /\ [][Next]_vars

\* Users, tracking of one url, alerts and the price run, called for any
\* product at any time; the clock advances once.
PriceNext ==
    \/ \E d \in ClockSteps : ticks = 0 /\ Tick(d)
    \/ \E e \in Users : RegisterUser(e)
    \/ \E e \in Users : DeleteUserAccount(e)
    \/ \E e \in Users : TrackStart(e, "amazon.in/dp/A")
    \/ \E r \in RunIds, res \in ScrapeResults : TrackResume(r, res)
    \/ \E e \in Users, p \in ProductIds : DeleteProduct(e, p)
    \/ \E e \in Users, p \in ProductIds, t \in Targets : CreateAlert(e, p, t)
    \/ \E e \in Users, a \in AlertIds : DeleteAlert(e, a)
    \/ \E p \in ProductIds : ScrapeProductJob(p)
    \/ \E r \in RunIds, res \in ScrapeResults, dbok \in BOOLEAN :
          PriceScrapeDone(r, res, dbok)
    \/ \E r \in RunIds, delivered \in BOOLEAN, dbok \in BOOLEAN :
          PriceSendDone(r, delivered, dbok)

PriceSpec == Init /\ [][PriceNext]_vars

\* Tracking and the comparison run.
CmpNext ==
    \/ \E d \in ClockSteps : Tick(d)
    \/ RegisterUser("u1")
    \/ \E url \in Urls : TrackStart("u1", url)
    \/ \E r \in RunIds, res \in ScrapeResults : TrackResume(r, res)
    \/ \E p \in ProductIds : DeleteProduct("u1", p)
    \/ \E p \in ProductIds : CompareProductJob(p)
    \/ \E p \in ProductIds : FireJobNoLoop("compare_price", p)
    \/ \E r \in RunIds, raised \in BOOLEAN, failAt \in FailPoints,
          flip \in SeqsUpTo(Cands("Flipkart"), MaxCands),
          mee \in SeqsUpTo(Cands("Meesho"), MaxCands) :
          CmpSearchDone(r, raised, flip, mee, failAt)

CmpSpec == Init /\ [][CmpNext]_vars

\* Tracking and comparison runs, up to MaxCmpRuns runs: each of two products
\* can have had a run commit before a further run of one of them commits.
ReplaceNext ==
    \/ \E d \in ClockSteps : Tick(d)
    \/ RegisterUser("u1")
    \/ \E url \in Urls : TrackStart("u1", url)
    \/ \E r \in RunIds, res \in ScrapeResults : TrackResume(r, res)
    \/ \E p \in ProductIds : CompareProductJobWithin(MaxCmpRuns, p)
    \/ \E r \in CmpRunIds, raised \in BOOLEAN, failAt \in FailPoints,
          flip \in SeqsUpTo(Cands("Flipkart"), 1) :
          CmpSearchDone(r, raised, flip, <<>>, failAt)

ReplaceSpec == Init /\ [][ReplaceNext]_vars

\* The scheduler's functions called directly, for any product id.
SchedNext ==
    \/ \E p \in ProductIds : CallSchedule(p)
    \/ \E p \in ProductIds : CallRemove(p)

SchedSpec == Init /\ [][SchedNext]_vars

\* Tracking and both jobs of a product: their firing, and their runs.
JobsNext ==
    \/ RegisterUser("u1")
    \/ \E url \in Urls : TrackStart("u1", url)
    \/ \E r \in RunIds, res \in ScrapeResults : TrackResume(r, res)
    \/ \E p \in ProductIds, kind \in {"scrape_price", "compare_price"} :
          FireJobNoLoop(kind, p)
    \/ \E p \in ProductIds : ScrapeProductJob(p)
    \/ \E p \in ProductIds : CompareProductJob(p)
    \/ \E r \in RunIds, res \in ScrapeResults, dbok \in BOOLEAN :
          PriceScrapeDone(r, res, dbok)
    \/ \E r \in RunIds, raised \in BOOLEAN, failAt \in FailPoints,
          flip \in SeqsUpTo(Cands("Flipkart"), 1) :
          CmpSearchDone(r, raised, flip, <<>>, failAt)

JobsSpec == Init /\ [][JobsNext]_vars

\* Track and delete requests alone.
TrackNext ==
    \/ RegisterUser("u1")
    \/ \E url \in Urls : TrackStart("u1", url)
    \/ \E r \in RunIds, res \in ScrapeResults : TrackResume(r, res)
    \/ \E p \in ProductIds : DeleteProduct("u1", p)

TrackSpec == Init /\ [][TrackNext]_vars

\* Users and their track, delete and alert requests, with two target prices.
AlertNext ==
    \/ \E e \in Users : RegisterUser(e)
    \/ \E e \in Users : DeleteUserAccount(e)
    \/ \E e \in Users, url \in Urls : TrackStart(e, url)
    \/ \E r \in RunIds, res \in ScrapeResults : TrackResume(r, res)
    \/ \E e \in Users, p \in ProductIds : DeleteProduct(e, p)
    \/ \E e \in Users, p \in ProductIds, t \in AlertTargets : CreateAlert(e, p, t)
    \/ \E e \in Users, a \in AlertIds : DeleteAlert(e, a)

AlertSpec == Init /\ [][AlertNext]_vars

\* Tracking, price runs without alerts, the clock and the retention sweep.
SweepNext ==
    \/ \E d \in ClockSteps : Tick(d)
    \/ RegisterUser("u1")
    \/ \E url \in Urls : TrackStart("u1", url)
    \/ \E r \in RunIds, res \in ScrapeResults : TrackResume(r, res)
    \/ \E p \in ProductIds : ScrapeProductJob(p)
    \/ \E r \in RunIds, res \in ScrapeResults, dbok \in BOOLEAN :
          PriceScrapeDone(r, res, dbok)
    \/ \E dbok \in BOOLEAN : RetentionSweep(dbok)

SweepSpec == Init /\ [][SweepNext]_vars

\* The operations on one tracked url: price runs called at any time, also
\* while a price run of the same product is in flight, the firing of the
\* product's price job, rescans, comparison runs and sweeps.
NotifyNext ==
    \/ \E d \in ClockSteps : Tick(d)
    \/ \E e \in Users : RegisterUser(e)
    \/ \E e \in Users : TrackStart(e, "amazon.in/dp/A")
    \/ \E r \in RunIds, res \in ScrapeResults : TrackResume(r, res)
    \/ \E e \in Users, p \in ProductIds, t \in Targets : CreateAlert(e, p, t)
    \/ \E p \in ProductIds : ScrapeProductJob(p)
    \/ \E r \in RunIds, res \in ScrapeResults, dbok \in BOOLEAN :
          PriceScrapeDone(r, res, dbok)
    \/ \E r \in RunIds, delivered \in BOOLEAN, dbok \in BOOLEAN :
          PriceSendDone(r, delivered, dbok)
    \/ \E p \in ProductIds : FireJobNoLoop("scrape_price", p)
    \/ \E e \in Users, p \in ProductIds : ManualRescan(e, p)
    \/ \E r \in RunIds : ManualTask(r)
    \/ \E dbok \in BOOLEAN : RetentionSweep(dbok)
    \/ \E p \in ProductIds : CompareProductJob(p)
    \/ \E r \in RunIds, raised \in BOOLEAN, failAt \in FailPoints,
          flip \in SeqsUpTo(Cands("Flipkart"), 1) :
          CmpSearchDone(r, raised, flip, <<>>, failAt)

NotifySpec == Init /\ [][NotifyNext]_vars
\* The helper functions, each called on every argument of its domain.
HelperNext ==
    \/ \E cands \in SeqsUpTo(AllCands, MaxList) : CallFuzzyBestMatch(cands)
    \/ \E name \in ProductNames, brand \in Brands : CallBuildSearchQuery(name, brand)
    \/ \E input \in PriceTexts : CallExtractPrice(input)
    \/ \E ks \in PageKinds("amazon") :
           \E page \in {Page(ks)} : CallScrapeAmazon(page)
    \/ \E ks \in PageKinds("flipkart") :
           \E page \in {Page(ks)} : CallScrapeFlipkart(page)
    \/ \E url \in ScrapeUrls, title \in BOOLEAN, fault \in ScrapeFaults :
           \E ks \in UniformKinds(LocatorsOf(url)) :
               \E page \in {Page(ks)} : CallScrapeProduct(url, page, title, fault)
    \/ \E fo \in SearchOutcomes("Flipkart"), mo \in SearchOutcomes("Meesho") :
           CallSearchCrossPlatform(fo, mo)
    \/ \E url \in ScrapeUrls, title \in BOOLEAN, fault \in ScrapeFaults :
           \E ks \in UniformKinds(LocatorsOf(url)), launches \in BOOLEAN :
               \E scraped \in {ScrapeProduct(url, Page(ks), title, fault)} :
                   CallRunScrape(launches, scraped)
    \/ \E fo \in SearchOutcomes("Flipkart"), mo \in SearchOutcomes("Meesho") :
           \E launches \in BOOLEAN :
               \E searched \in {SearchCrossPlatformCall(fo, mo)} :
                   CallRunSearch(launches, searched)

HelperSpec == Init /\ [][HelperNext]_vars
----------------------------------------------------------------------------
(* Properties *)

\* Task r ends in this step with the given outcome.
Ends(r, outcome) ==
    /\ r \in DOMAIN runs
    /\ last'.rid = r
    /\ last'.out = outcome

\* The update_product_price runs of product p among the runs rs.
PriceRunsInFlight(rs, p) ==
    {r \in DOMAIN rs : rs[r].kind = "price" /\ rs[r].pid = p}

\* The step is a firing of the price job of product p.
PriceJobFires(p) ==
    /\ last' # last
    /\ last'.kind = "scrape_price"
    /\ last'.pid = p

\* The step is a rescan request for product p, or the step of its task.
RescanSteps(p) ==
    \/ \E r \in DOMAIN runs' \ DOMAIN runs :
           runs'[r].kind = "manual" /\ runs'[r].pid = p
    \/ \E r \in DOMAIN runs \ DOMAIN runs' :
           runs[r].kind = "manual" /\ runs[r].pid = p

\* Some run in flight has selected alert a and not yet committed.
HeldSelected(a) ==
    \E r \in DOMAIN runs : runs[r].kind = "price" /\ a \in Range(runs[r].sel)

Occurrences(seq, x) == Cardinality({i \in DOMAIN seq : seq[i] = x})

\* C1: a price run that commits appends exactly one price record to its
\* product, leaves every alert it selected triggered with date_triggered
\* set, and has called the notification exactly once for each of them; and
\* once an alert is triggered, a run that selects its alerts afterwards
\* makes no notification attempt for it and leaves its date_triggered as
\* it is (every step does, as long as no run that selected the alert
\* before the trigger was committed is still in flight).
C1_CommitStep ==
    \A r \in DOMAIN runs :
        (runs[r].kind = "price" /\ Ends(r, "committed")) =>
            /\ Len(points'[last'.pid]) = Len(points[last'.pid]) + 1
            /\ \A a \in Range(last'.sel) :
                  /\ alerts'[a].triggered
                  /\ alerts'[a].date # <<>>
                  /\ Occurrences(last'.sent, a) = 1

C1_LaterStep ==
    \A a \in DOMAIN alerts :
        (alerts[a].triggered /\ ~HeldSelected(a)) =>
            /\ attempts'[a] = attempts[a]
            /\ a \in DOMAIN alerts' =>
                  /\ alerts'[a].triggered
                  /\ alerts'[a].date = alerts[a].date
            /\ \A r \in DOMAIN runs' : a \notin Range(runs'[r].sel)

C1_TriggeredExactlyOnce == [][C1_CommitStep /\ C1_LaterStep]_vars

\* C1 witness: a price run has committed without selecting anything, for a
\* product whose alert (target >= the run's price) an earlier run triggered
\* with its single notification attempt.
C1_Witness ==
    /\ last.kind = "price"
    /\ last.out = "committed"
    /\ last.sel = <<>>
    /\ \E a \in DOMAIN alerts :
          /\ alerts[a].pid = last.pid
          /\ alerts[a].target >= last.price
          /\ alerts[a].triggered
          /\ alerts[a].date # <<>>
          /\ attempts[a] = 1
    /\ Len(points[last.pid]) >= 3

\* C2: neither a firing of a product's price job nor a manual rescan of the
\* product (the request, and the step of its background task) puts a second
\* update_product_price run of the product in flight: such a step leaves the
\* product's price runs in flight as they were, also while one of them is
\* suspended at its scrape.
C2_TriggerStep ==
    \A p \in ProductIds :
        (PriceJobFires(p) \/ RescanSteps(p)) =>
            PriceRunsInFlight(runs', p) = PriceRunsInFlight(runs, p)

C2_TriggersStartNoSecondRun == [][C2_TriggerStep]_vars

\* C2 witness: a price run is suspended at its scrape; since it started, a
\* rescan of its product has been requested and, at a later time, the
\* product's price job has fired; the run is still the product's only one.
C2_Witness ==
    \E r, m \in DOMAIN runs :
        /\ runs[r].kind = "price"
        /\ runs[r].pc = "scrape"
        /\ runs[m].kind = "manual"
        /\ runs[m].pid = runs[r].pid
        /\ m > r
        /\ last.kind = "scrape_price"
        /\ last.out = "no_event_loop"
        /\ last.pid = runs[r].pid
        /\ last.upd > runs[r].upd
        /\ PriceRunsInFlight(runs, runs[r].pid) = {r}

\* C3: when the scrape of a price run fails, the run ends leaving the
\* product row (current_price, updated_at), the price records, the alerts
\* and the notification attempts as they were.
C3_FailedStep ==
    \A r \in DOMAIN runs :
        (runs[r].kind = "price" /\ Ends(r, "scrape_failed")) =>
            /\ products' = products
            /\ points' = points
            /\ alerts' = alerts
            /\ attempts' = attempts

C3_ScrapeFailureChangesNothing == [][C3_FailedStep]_vars

\* C3 witness: a price run has ended on a failed scrape, at a later time
\* than its product was last updated, while the product has an untriggered
\* alert and a single price record.
C3_Witness ==
    /\ last.kind = "price"
    /\ last.out = "scrape_failed"
    /\ last.pid \in DOMAIN products
    /\ products[last.pid].upd < now
    /\ Len(points[last.pid]) = 1
    /\ \E a \in DOMAIN alerts :
          /\ alerts[a].pid = last.pid
          /\ ~alerts[a].triggered
          /\ attempts[a] = 0

\* C4: an alert that is triggered stays triggered, and its date_triggered,
\* once set, keeps its value, for as long as the alert exists.
C4_Step ==
    \A a \in DOMAIN alerts :
        (a \in DOMAIN alerts') =>
            /\ alerts[a].triggered => alerts'[a].triggered
            /\ alerts[a].date # <<>> => alerts'[a].date = alerts[a].date

C4_TriggerIsFinal == [][C4_Step]_vars

\* C5: a price run in which a notification delivery failed ends like any
\* other: it commits (unless the database refuses the commit), and then the
\* price record is appended and the alerts whose delivery failed are stored
\* triggered with date_triggered set; and no run ever selects an alert that
\* is stored as triggered when the run selects.
C5_EndStep ==
    \A r \in DOMAIN runs :
        (runs[r].kind = "price" /\ last'.rid = r /\ last'.failed # {}) =>
            /\ last'.out \in {"committed", "commit_failed"}
            /\ last'.out = "committed" =>
                  /\ Len(points'[last'.pid]) = Len(points[last'.pid]) + 1
                  /\ \A a \in last'.failed :
                        alerts'[a].triggered /\ alerts'[a].date # <<>>

C5_SelectStep ==
    \A r \in DOMAIN runs :
        (runs[r].kind = "price" /\ runs[r].pc = "scrape"
            /\ r \in DOMAIN runs' /\ runs'[r].pc = "send") =>
            \A a \in Range(runs'[r].sel) : ~alerts[a].triggered

C5_FailedDeliveryStillCommits == [][C5_EndStep /\ C5_SelectStep]_vars

\* C5 witness: a price run has committed although the delivery for an
\* alert it selected failed; that alert is stored triggered, with a date
\* and one notification attempt.
C5_Witness ==
    /\ last.kind = "price"
    /\ last.out = "committed"
    /\ last.failed # {}
    /\ \A a \in last.failed :
          /\ a \in DOMAIN alerts
          /\ alerts[a].triggered
          /\ alerts[a].date # <<>>
          /\ attempts[a] = 1

ProductKinds == {"scrape_price", "compare_price"}

JobsOf(js, p) == SelectSeq(js, LAMBDA j : j.id[1] \in ProductKinds /\ j.id[2] = p)

JobsNotOf(js, p) ==
    SelectSeq(js, LAMBDA j : ~(j.id[1] \in ProductKinds /\ j.id[2] = p))

\* C6: a call of schedule_product_scraping(p) leaves exactly one job under
\* each of p's two keys, whether or not p had jobs before, and leaves every
\* other job as it was; no key is ever held by two jobs.
C6_ScheduleStep ==
    \A p \in ProductIds :
        (nSched'[p] = nSched[p] + 1) =>
            /\ JobCount(jobs', JobId("scrape_price", p)) = 1
            /\ JobCount(jobs', JobId("compare_price", p)) = 1
            /\ JobsNotOf(jobs', p) = JobsNotOf(jobs, p)

C6_NoDuplicateKey ==
    \A i, j \in DOMAIN jobs : jobs[i].id = jobs[j].id => i = j

C6_ScheduleIsUpsert ==
    [][C6_ScheduleStep /\ C6_NoDuplicateKey /\ C6_NoDuplicateKey']_vars

\* C6 witness: a product scheduled twice and never removed holds one job
\* per key, beside another product's jobs.
C6_Witness ==
    \E p, q \in ProductIds :
        /\ p # q
        /\ nSched[p] = 2
        /\ nRemoved[p] = 0
        /\ nSched[q] >= 1
        /\ Len(JobsOf(jobs, p)) = 2
        /\ Len(JobsOf(jobs, q)) = 2

\* C7: a call of remove_product_jobs(p) leaves no job under p's keys,
\* leaves all other jobs (other products' and the global ones) as they
\* were and in their order, and raises nothing, also when p had no job.
C7_RemoveStep ==
    \A p \in ProductIds :
        (nRemoved'[p] = nRemoved[p] + 1) =>
            /\ JobsOf(jobs', p) = <<>>
            /\ jobs' = JobsNotOf(jobs, p)
            /\ JobsOf(jobs, p) = <<>> => jobs' = jobs
            /\ ~schedError'

C7_RemoveIsLocal == [][C7_RemoveStep]_vars

\* C7 witness: p's jobs have been removed (once with jobs, once without)
\* while another product's jobs and the global jobs are in the store.
C7_Witness ==
    \E p, q \in ProductIds :
        /\ p # q
        /\ nSched[p] >= 1
        /\ nRemoved[p] = 2
        /\ JobsOf(jobs, p) = <<>>
        /\ Len(JobsOf(jobs, q)) = 2
        /\ GetJob(jobs, JobId("cleanup_old_records", 0))
        /\ GetJob(jobs, JobId("scheduler_health_check", 0))
        /\ ~schedError

\* C8: while the service runs and no track request is in flight, every
\* stored product has exactly one price job and one comparison job, and a
\* product id that is not stored has none.
C8_TrackedMeansScheduled ==
    (Serving /\ TracksInFlight = 0) =>
        \A p \in ProductIds :
            IF p \in DOMAIN products
            THEN /\ JobCount(jobs, JobId("scrape_price", p)) = 1
                 /\ JobCount(jobs, JobId("compare_price", p)) = 1
            ELSE JobsOf(jobs, p) = <<>>

\* C9: a comparison run that commits leaves its product with exactly the
\* rows of the matches it found (none, if it found none), whatever was
\* stored before, and leaves the rows of every other product as they were.
C9_CommitStep ==
    \A r \in DOMAIN runs :
        (runs[r].kind = "cmp" /\ Ends(r, "committed")) =>
            /\ comparisons'[last'.pid] = Rows(last'.found, now)
            /\ \A q \in ProductIds \ {last'.pid} :
                  comparisons'[q] = comparisons[q]

C9_ComparisonSetReplaced == [][C9_CommitStep]_vars

\* C9 witness: a comparison run that found no match has committed and
\* emptied a set that held a row, while another product has rows stored.
C9_Witness ==
    /\ last.kind = "cmp"
    /\ last.out = "committed"
    /\ last.found = <<>>
    /\ last.before # <<>>
    /\ comparisons[last.pid] = <<>>
    /\ \E q \in ProductIds \ {last.pid} : comparisons[q] # <<>>

\* C10: a comparison run that ends in its except branch (the search raised,
\* or something raised after the DELETE and before the commit was done)
\* leaves every product's stored rows as they were.
C10_FailedStep ==
    \A r \in DOMAIN runs :
        (runs[r].kind = "cmp"
            /\ (Ends(r, "search_failed") \/ Ends(r, "commit_failed"))) =>
            comparisons' = comparisons

C10_FailureKeepsComparisonSet == [][C10_FailedStep]_vars

\* C10 witness: a comparison run failed after its DELETE, and the row its
\* product had before is still stored.
C10_Witness ==
    /\ last.kind = "cmp"
    /\ last.out = "commit_failed"
    /\ last.before # <<>>
    /\ comparisons[last.pid] = last.before

\* C11: every stored product has at least one price record, and its
\* current_price is the price of the most recent one.
C11_CurrentPriceIsLatestPoint ==
    \A p \in DOMAIN products :
        /\ points[p] # <<>>
        /\ products[p].price = points[p][Len(points[p])].price

FailureOutcomes == {"scrape_failed", "commit_failed", "search_failed"}

\* C12: a step in which the callable of a fired job raises, or in which a
\* price or comparison run ends on an exception, leaves the job store
\* (every job, with its key and trigger) and the running scheduler as they
\* were; and the job store changes in no step other than one that stores or
\* deletes a product.
C12_FailedStep ==
    /\ (last' # last /\ last'.out = "no_event_loop") =>
           /\ jobs' = jobs
           /\ phase' = phase
           /\ runs' = runs
    /\ \A r \in DOMAIN runs :
           (runs[r].kind \in {"price", "cmp"} /\ last'.rid = r
               /\ last'.out \in FailureOutcomes) =>
               /\ jobs' = jobs
               /\ phase' = phase
               /\ r \notin DOMAIN runs'

C12_JobsFrame == (jobs' # jobs) => (products' # products)

C12_JobSurvivesException == [][C12_FailedStep /\ C12_JobsFrame]_vars

\* C12 witness: the callable of a product's job has raised at its firing
\* while the service runs; the product still holds both jobs with their
\* triggers, and so does the other product.
C12_Witness ==
    /\ Serving
    /\ last.kind \in ProductKinds
    /\ last.out = "no_event_loop"
    /\ \E q \in ProductIds \ {last.pid} :
          \A p \in {q, last.pid} :
              /\ [id |-> JobId("scrape_price", p),
                  trigger |-> <<"hours", PriceIntervalHours>>] \in Range(jobs)
              /\ [id |-> JobId("compare_price", p),
                  trigger |-> <<"hours", CompareIntervalHours>>] \in Range(jobs)

C13_UniqueUrl ==
    \A p, q \in DOMAIN products : products[p].url = products[q].url => p = q

\* A track request arrives in this step and goes on to its scrape.
TrackAdmitted(r) == r \in DOMAIN runs' /\ r \notin DOMAIN runs /\ runs'[r].kind = "track"

\* C13: no two stored products have the same url; a track request that
\* arrives for a url that is stored is answered with the conflict and never
\* reaches the scrape, and neither that answer nor the insert that the
\* unique constraint rejects (the later of two overlapping requests for one
\* url) stores a product or changes the job store.
C13_Step ==
    /\ \A r \in RunIds : TrackAdmitted(r) => ~UrlTracked(products, runs'[r].url)
    /\ (last' # last /\ last'.kind = "track" /\ last'.out = "conflict") =>
           /\ UrlTracked(products, last'.url)
           /\ runs' = runs
    /\ (last' # last /\ last'.kind = "track"
            /\ last'.out \in {"conflict", "integrity_error"}) =>
           /\ products' = products
           /\ points' = points
           /\ jobs' = jobs

C13_OneProductPerUrl == [][C13_UniqueUrl /\ C13_UniqueUrl' /\ C13_Step]_vars

\* C13 witness: of two track requests for one url that overlapped at the
\* scrape, the later one has ended at the rejected insert; one product has
\* the url, with its two jobs, and nothing else is stored or scheduled.
C13_Witness ==
    /\ last.kind = "track"
    /\ last.out = "integrity_error"
    /\ nRuns = 2
    /\ DOMAIN products = {1}
    /\ products[1].url = last.url
    /\ Len(jobs) = Len(GlobalJobs) + 2

AlertKey(a) == <<alerts[a].user, alerts[a].pid, alerts[a].target>>

C14_UniqueTuple ==
    \A a, b \in DOMAIN alerts : AlertKey(a) = AlertKey(b) => a = b

\* C14: no two stored alerts have the same (user, product, target_price);
\* create_alert answered with the conflict had a stored alert with its
\* tuple and leaves the alerts as they were; and a step that stores an
\* alert stores exactly one, with a tuple no stored alert had.
C14_Step ==
    /\ (last' # last /\ last'.kind = "alert" /\ last'.out = "conflict") =>
           /\ AlertExists(alerts, last'.user, last'.pid, last'.target)
           /\ alerts' = alerts
           /\ nextAlert' = nextAlert
    /\ \A a \in DOMAIN alerts' \ DOMAIN alerts :
           /\ DOMAIN alerts' = DOMAIN alerts \cup {a}
           /\ ~AlertExists(alerts, alerts'[a].user, alerts'[a].pid, alerts'[a].target)
           /\ \A b \in DOMAIN alerts : alerts'[b] = alerts[b]

C14_NoDuplicateAlert == [][C14_UniqueTuple /\ C14_UniqueTuple' /\ C14_Step]_vars

\* C14 witness: a user holds two alerts on one product with different
\* target prices, and a further create_alert for one of the two tuples
\* was answered with the conflict.
C14_Witness ==
    /\ last.kind = "alert"
    /\ last.out = "conflict"
    /\ \E a, b \in DOMAIN alerts :
          /\ alerts[a].user = last.user /\ alerts[b].user = last.user
          /\ alerts[a].pid = last.pid /\ alerts[b].pid = last.pid
          /\ alerts[a].target = last.target
          /\ alerts[b].target # last.target

OldPoints(ps, t) == {i \in DOMAIN ps : ps[i].ts < t - RetentionDays}

\* C20: a retention sweep that commits at time t leaves, for every product,
\* no price record older than t - 30 days and all the others, in their
\* order; it reports the number of rows it removed; when no record is older
\* than the cutoff it removes none and changes nothing; what it leaves is
\* what a second sweep at the same time would leave; and a sweep, committed
\* or failed, changes nothing but price records.
C20_SweepStep ==
    (last' # last /\ last'.kind = "sweep") =>
        /\ products' = products /\ alerts' = alerts /\ comparisons' = comparisons
        /\ jobs' = jobs
        /\ last'.out = "failed" => points' = points
        /\ last'.out = "committed" =>
              /\ \A p \in ProductIds :
                    /\ OldPoints(points'[p], now) = {}
                    /\ points'[p] =
                          SelectSeq(points[p], LAMBDA x : x.ts >= now - RetentionDays)
                    /\ Retained(points'[p], now) = points'[p]
              /\ last'.deleted =
                    Cardinality({<<p, i>> \in ProductIds \X (1..(MaxRuns + 1)) :
                                    i \in OldPoints(points[p], now)})
              /\ (\A p \in ProductIds : OldPoints(points[p], now) = {}) =>
                    (points' = points /\ last'.deleted = 0)

C20_SweepRemovesExactlyTheOld == [][C20_SweepStep]_vars

\* C20 witness: a sweep has removed a record and kept, for a stored
\* product, the record whose timestamp is exactly the cutoff.
C20_Witness ==
    /\ last.kind = "sweep"
    /\ last.out = "committed"
    /\ last.upd = now
    /\ last.deleted >= 1
    /\ \E p \in DOMAIN products :
          /\ points[p] # <<>>
          /\ points[p][1].ts = now - RetentionDays

Scores(cands) == {Similarity(cands[i].name) : i \in DOMAIN cands}

MaxScore(cands) == CHOOSE m \in Scores(cands) : \A x \in Scores(cands) : x <= m

\* C15: fuzzy_best_match returns at most one candidate; none when the list
\* is empty or the highest score is below 80; else the candidate at the
\* first position that holds the highest score, with that score added as
\* match_score.
C15_BestMatch ==
    call.fn = "fuzzy_best_match" =>
        LET cands == call.args
            ret == call.ret
        IN  /\ Len(ret) <= 1
            /\ (cands = <<>> \/ MaxScore(cands) < 80) => ret = <<>>
            /\ (cands # <<>> /\ MaxScore(cands) >= 80) =>
                  /\ Len(ret) = 1
                  /\ ret[1].match_score = MaxScore(cands)
                  /\ \E i \in DOMAIN cands :
                        /\ Similarity(cands[i].name) = MaxScore(cands)
                        /\ \A j \in 1..(i - 1) :
                              Similarity(cands[j].name) < MaxScore(cands)
                        /\ ret[1].platform = cands[i].platform
                        /\ ret[1].name = cands[i].name
                        /\ ret[1].price = cands[i].price

\* C15 witness: the call returned the second of three candidates, which
\* scores exactly 80 like the third (of another platform) and above the
\* first.
C15_Witness ==
    /\ call.fn = "fuzzy_best_match"
    /\ Len(call.args) = 3
    /\ Similarity(call.args[1].name) < 80
    /\ Similarity(call.args[2].name) = 80
    /\ Similarity(call.args[3].name) = 80
    /\ call.args[2].platform # call.args[3].platform
    /\ Len(call.ret) = 1
    /\ call.ret[1].platform = call.args[2].platform

\* C16: build_search_query("Widget Pro X123-Y (Black)", "Acme") returns
\* "Acme " followed by a model token of five or more alphanumerics, and not
\* the brand with the core title.
C16_ModelQuery ==
    (call.fn = "build_search_query" /\ call.args = <<NameWidgetX123Y, BrandAcme>>) =>
        /\ \E model \in {SubSeq(call.ret, 6, Len(call.ret))} :
              /\ Len(model) >= 5
              /\ \A i \in DOMAIN model : model[i] \in ModelChars \cup (97..122)
              /\ call.ret = BrandAcme \o <<32>> \o model
        /\ call.ret # BrandAcme \o <<32>> \o ExtractCoreTitle(NameWidgetX123Y)

\* round(amount * 100) for amount = units / scale, halves rounded up.
RoundedPaise(units, scale) == (2 * units * 100 + scale) \div (2 * scale)

\* C17: for a text that shows one amount, _extract_price returns
\* round(amount * 100); for a text with no numeric substring it raises.
C17_RoundedAmount ==
    call.fn = "_extract_price" =>
        IF call.args.units >= 0
        THEN /\ ~call.ret.raised
             /\ call.ret.value = RoundedPaise(call.args.units, call.args.scale)
        ELSE call.ret.raised

\* C18: an extractor that finds no non-empty name fails, naming the name
\* or with the error of its one unguarded locator; one that finds a name and no non-empty price text fails naming the
\* price; one that succeeds returns, per field, what the first locator
\* with a non-empty result gave (the name stripped, the price text
\* normalized, the image as it is, empty when no locator gave one); and it
\* succeeds whenever the first non-empty name and the first non-empty
\* price text, which the normalizer accepts, exist.
C18_FirstLocatorWins ==
    call.fn \in {"_scrape_amazon", "_scrape_flipkart"} =>
        LET page == call.args
            ret == call.ret
            n == FirstYield(page.name)
            p == FirstYield(page.price)
            i == FirstYield(page.image)
        IN  /\ n = 0 => (ret.raised /\ ret.error \in {"name", "locator"})
            /\ (n # 0 /\ p = 0) => (ret.raised /\ ret.error = "price")
            /\ (n # 0 /\ p # 0 /\ ~ret.raised) =>
                  /\ ret.name = Strip(page.name[n].text)
                  /\ ret.price = ExtractPrice(page.price[p].text).value
                  /\ ret.image_url = IF i = 0 THEN <<>> ELSE page.image[i].text
            /\ (n # 0 /\ p # 0 /\ ~ExtractPrice(page.price[p].text).raised) =>
                  ~ret.raised

\* C19: whatever goes wrong in the search of one platform, its snapshot
\* included, search_cross_platform returns normally and its result is the
\* match over the other platform's candidates alone.
C19_FaultStaysOnItsPlatform ==
    call.fn = "search_cross_platform" =>
        LET fo == call.args[1]
            mo == call.args[2]
            f == IF fo.fault = "none" THEN fo.cands ELSE <<>>
            m == IF mo.fault = "none" THEN mo.cands ELSE <<>>
        IN  /\ ~call.ret.raised
            /\ call.ret.results = SearchCrossPlatform(f, m)

\* The outcomes with which an update_product_price run ends.
PriceRunOutcomes == {"absent", "scrape_failed", "committed", "commit_failed"}

\* C21: the background task that trigger_rescan queues for a tracked
\* product performs an update_product_price run for it: when the task
\* ends, it ends with the outcome of such a run.
C21_RescanPerformsRun ==
    [][\A r \in DOMAIN runs :
          (runs[r].kind = "manual" /\ r \notin DOMAIN runs' /\ last'.rid = r) =>
              last'.out \in PriceRunOutcomes]_vars

\* C22: send_price_drop_alert is called at most once for every alert, over
\* all the price runs of its product, also when a run that called it ends
\* with a failed commit.
C22_AtMostOneAttempt == \A a \in AlertIds : attempts[a] <= 1

JobKindOf(run) == IF run.kind = "price" THEN "scrape_price" ELSE "compare_price"

\* C23: a step in which a job of a product fires starts one run of that
\* job's reconciler for that product: the call of a job's callable never
\* ends with no run started.
C23_FiringStep ==
    (last' # last /\ last'.kind \in ProductKinds) =>
        \E r \in DOMAIN runs' \ DOMAIN runs :
            /\ runs'[r].kind \in {"price", "cmp"}
            /\ runs'[r].pid = last'.pid
            /\ JobKindOf(runs'[r]) = last'.kind

C23_FiringReachesReconciler == [][C23_FiringStep]_vars

\* C24: when search_cross_platform returns, its result (the rows that
\* update_cross_platform_comparison then stores) holds, for each of the two
\* platforms whose search gave a candidate scoring at least 80, the
\* best-scoring candidate of that platform.
C24_BestOfEachPlatform ==
    (call.fn = "search_cross_platform" /\ ~call.ret.raised) =>
        \A i \in {1, 2} :
            LET o == call.args[i]
                best == FuzzyBestMatch(o.cands, MatchThreshold)
            IN  (o.fault = "none" /\ best # <<>>) =>
                    best[1] \in Range(call.ret.results)

\* The price runs in flight that have called send_price_drop_alert for a.
Attempting(a) ==
    {r \in DOMAIN runs : runs[r].kind = "price" /\ a \in Range(runs[r].sent)}

\* C25: no two price runs that are in flight together have both made a
\* notification attempt for the same alert (each of them would also write
\* its date_triggered).
C25_OverlapNotifiesOnce == \A a \in AlertIds : Cardinality(Attempting(a)) <= 1

\* C26: scrape_product on a Flipkart or Meesho URL, on a page whose name
\* and price locators of that platform yield a name and a price text that
\* the normalizer accepts, with nothing raising around the extraction,
\* returns a record of that platform, whatever else is on the page.
C26_OwnLocatorsSuffice ==
    call.fn = "scrape_product" =>
        LET in == call.args
            n == FirstYield(in.page.name)
            p == FirstYield(in.page.price)
        IN  (/\ SiteOf(in.url) \in {"flipkart", "meesho"}
             /\ in.fault = "none"
             /\ n # 0
             /\ p # 0
             /\ ~ExtractPrice(in.page.price[p].text).raised
             /\ ExtractPrice(in.page.price[p].text).value > 0) =>
                /\ ~call.ret.result.raised
                /\ call.ret.result.platform =
                      (IF SiteOf(in.url) = "flipkart" THEN "Flipkart" ELSE "Meesho")

\* C27: when the first price locator with a non-empty result gives a text
\* that the normalizer rejects, the extractor (a name being found) fails
\* with the normalizer's error: it returns no record, and it does not fail
\* with the price reported as not found.
C27_ParseErrorPropagates ==
    call.fn \in {"_scrape_amazon", "_scrape_flipkart"} =>
        LET page == call.args
            n == FirstYield(page.name)
            p == FirstYield(page.price)
        IN  (n # 0 /\ p # 0 /\ ExtractPrice(page.price[p].text).raised) =>
                (call.ret.raised /\ call.ret.error = "parse")

\* Product id p was stored once and has been deleted.
Deleted(p) == p < nextPid /\ p \notin DOMAIN products

\* C28: once a product is deleted, no price record, no alert, no comparison
\* row and no job refers to its id, whatever runs for it were in flight
\* when it was deleted and whatever they do afterwards.
C28_NothingRefersToDeleted ==
    \A p \in ProductIds :
        Deleted(p) =>
            /\ points[p] = <<>>
            /\ \A a \in DOMAIN alerts : alerts[a].pid # p
            /\ comparisons[p] = <<>>
            /\ ~GetJob(jobs, JobId("scrape_price", p))
            /\ ~GetJob(jobs, JobId("compare_price", p))

\* C29: scrape_product and search_cross_platform have closed as many pages
\* as they opened when they end, with a result or with an exception raised
\* at any step; and a run's `async with ProductScraper` block has closed the
\* browser it launched and every page opened inside it.
C29_ResourcesReleased ==
    /\ call.fn \in {"scrape_product", "search_cross_platform"} =>
           call.ret.opened = call.ret.closed
    /\ call.fn \in {"run_scrape", "run_search"} =>
           /\ call.ret.browsers.opened = call.ret.browsers.closed
           /\ call.ret.pages.opened = call.ret.pages.closed

\* C29 witness: scrape_product opened a page, the wait timed out and the
\* snapshot in the except branch raised, and the page is closed.
C29_Witness ==
    /\ call.fn = "scrape_product"
    /\ call.args.fault = "snapshot"
    /\ ~call.args.title
    /\ call.ret.result.raised
    /\ call.ret.result.error = "snapshot"
    /\ call.ret.opened = 1
    /\ call.ret.closed = 1
====
